---------------------------- MODULE Spec2Model ----------------------------
(***************************************************************************)
(* A model of the revel storage engine (guimingyue/revel): the byte codec, *)
(* the memtable over the skiplist, the write batch, the DB write/read path *)
(* and the write-ahead log writer and reader.                              *)
(*                                                                         *)
(* Conventions                                                             *)
(*   - a byte string (Vec<u8>, &[u8], Slice) is a sequence of 0..255;      *)
(*     Rust's 0-based offsets are kept in the operators' parameters and    *)
(*     translated to 1-based indices at the point of access (At, Sub);     *)
(*   - a u64 is kept as its eight little-endian bytes (U64), because the   *)
(*     code reads and writes u64 values whose upper half is not zero and   *)
(*     TLC's integers are 32 bits wide;                                    *)
(*   - a panic (index out of bounds, failed assert, unwrap of Err) and a   *)
(*     crash are the outcome "abort"; undefined behaviour is a choice      *)
(*     among the outcomes a build can produce.                             *)
(***************************************************************************)
EXTENDS Integers, Sequences, FiniteSets, TLC

(***************************************************************************)
(* Bounds of the model.                                                    *)
(***************************************************************************)
\* number of MemTable::add calls in the memtable scenario
MaxAdds == 3
\* largest sequence number used as a snapshot in the memtable scenario
MaxSnapshot == 3
\* number of DB::write calls (put, delete, write) in the DB scenario
MaxWrites == 3
\* number of write calls whose log append or file sync fails
MaxFailures == 1
\* log_format::kBlockSize, the block size of the log, scaled down from 32768
kBlockSize == 16
\* number of log::Writer::add_record calls in the log scenario
MaxRecords == 2
\* number of operations in the WriteBatch of the batch scenario
MaxBatchOps == 3
\* the list scenario: keys 0..MaxKey, and the number of SkipList::insert calls
MaxKey == 4
MaxInserts == 4
\* the concurrent list scenario: keys 1..MaxConcKey, and the number of inserts
MaxConcKey == 3
MaxConcInserts == 2
\* kWritableFileBufferSize, the buffer of PosixWritableFile, scaled down from
\* 65536
kWritableFileBufferSize == 32
\* number of PosixWritableFile::append calls in the file scenario
MaxAppends == 2
\* the manifest scenario: manifest numbers 1..MaxManifest, log numbers
\* 1..MaxLogNumber, and VersionEdits per manifest
MaxManifest == 2
MaxLogNumber == 2
MaxEdits == 2
\* the comparator scenario: sequence numbers 0..MaxCmpSeq
MaxCmpSeq == 2

\* the fragment scenario: physical records in the file, read_record calls
MaxFrags == 3

MaxFragReads == 3

\* the coding scenario: values encoded one after another
MaxVarints == 2

\* the group scenario: writers in the queue
MaxQueue == 3

\* the replay scenario: operations in the batch, sequence numbers 1..MaxStamp
MaxReplayOps == 2

MaxStamp == 3

\* file numbers 0..MaxFileNumber in the calls of mark_file_number_used
MaxFileNumber == 10

\* the inputs of decode_from have up to MaxInput bytes
MaxInput == 3

(***************************************************************************)
(* Byte strings.                                                           *)
(***************************************************************************)
\* buf[i] for a 0-based i; the caller guarantees i < Len(buf)
At(buf, i) == buf[i + 1]

\* &buf[from..to] (0-based, `to` exclusive)
Sub(buf, from, to) == SubSeq(buf, from + 1, to)

\* vec![0; n]
Zeros(n) == SubSeq([i \in 1..n |-> 0], 1, n)

Min(a, b) == IF a < b THEN a ELSE b

Ordering == {"Less", "Equal", "Greater"}

\* <[u8] as Ord>::cmp: lexicographic comparison, a proper prefix is Less
RECURSIVE bytes_cmp(_, _)
bytes_cmp(a, b) ==
    IF a = << >> /\ b = << >> THEN "Equal"
    ELSE IF a = << >> THEN "Less"
    ELSE IF b = << >> THEN "Greater"
    ELSE IF Head(a) < Head(b) THEN "Less"
    ELSE IF Head(a) > Head(b) THEN "Greater"
    ELSE bytes_cmp(Tail(a), Tail(b))

(***************************************************************************)
(* u64 values, as eight little-endian bytes.                               *)
(***************************************************************************)
\* the u64 whose value is n, for 0 <= n < 2^31
U64(n) == << n % 256, (n \div 256) % 256, (n \div 65536) % 256,
             (n \div 16777216) % 256, 0, 0, 0, 0 >>

\* a u32 is kept as its four little-endian bytes: the u32 whose value is n,
\* for 0 <= n < 2^31, and the value of a u32 below 2^31
U32(n) == << n % 256, (n \div 256) % 256, (n \div 65536) % 256,
             (n \div 16777216) % 256 >>

U32ToNat(b) == b[1] + b[2] * 256 + b[3] * 65536 + b[4] * 16777216

\* a > b on u64
RECURSIVE U64Greater(_, _, _)
U64Greater(a, b, i) ==
    IF i = 0 THEN FALSE
    ELSE IF a[i] # b[i] THEN a[i] > b[i]
    ELSE U64Greater(a, b, i - 1)

\* a + 1 on u64, wrapping (release build)
RECURSIVE U64Inc(_, _)
U64Inc(a, i) ==
    IF i > 8 THEN a
    ELSE IF a[i] < 255 THEN [a EXCEPT ![i] = a[i] + 1]
    ELSE U64Inc([a EXCEPT ![i] = 0], i + 1)

\* (seq << 8) | t on u64: the top byte of seq is shifted out
ShlOr(seq, t) == << t >> \o SubSeq(seq, 1, 7)

(***************************************************************************)
(* coding.rs                                                               *)
(***************************************************************************)
\* v >> 7 on a u32 or u64
Shr7(v) ==
    SubSeq([i \in 1..Len(v) |->
              (v[i] \div 128) + (IF i < Len(v) THEN (v[i + 1] % 128) * 2 ELSE 0)],
           1, Len(v))

\* v << 7 on a u32 or u64: the top seven bits are shifted out
Shl7(v) ==
    SubSeq([i \in 1..Len(v) |->
              ((v[i] % 2) * 128) + (IF i > 1 THEN v[i - 1] \div 2 ELSE 0)],
           1, Len(v))

\* v >> shift and v << shift, for a shift that is a multiple of 7
RECURSIVE Shr(_, _)
Shr(v, shift) == IF shift = 0 THEN v ELSE Shr(Shr7(v), shift - 7)

RECURSIVE Shl(_, _)
Shl(v, shift) == IF shift = 0 THEN v ELSE Shl(Shl7(v), shift - 7)

\* x | y on u8
RECURSIVE ByteOr(_, _)
ByteOr(x, y) ==
    IF x = 0 THEN y
    ELSE IF y = 0 THEN x
    ELSE (IF (x % 2) + (y % 2) > 0 THEN 1 ELSE 0)
         + 2 * ByteOr(x \div 2, y \div 2)

\* a | b on u32
U32Or(a, b) == << ByteOr(a[1], b[1]), ByteOr(a[2], b[2]), ByteOr(a[3], b[3]),
                  ByteOr(a[4], b[4]) >>

\* a < b on u32
U32Less(a, b) == U64Greater(b, a, 4)

\* encode_varint32 with the first bound taken as v <= (1 << 7)
encode_varint32_le(v) ==
    IF ~U64Greater(v, U32(128), 4) THEN << v[1] >>
    ELSE IF U32Less(v, U32(16384)) THEN << ByteOr(v[1], 128), Shr(v, 7)[1] >>
    ELSE IF U32Less(v, U32(2097152)) THEN
        << ByteOr(v[1], 128), ByteOr(Shr(v, 7)[1], 128), Shr(v, 14)[1] >>
    ELSE IF U32Less(v, U32(268435456)) THEN
        << ByteOr(v[1], 128), ByteOr(Shr(v, 7)[1], 128),
           ByteOr(Shr(v, 14)[1], 128), Shr(v, 21)[1] >>
    ELSE
        << ByteOr(v[1], 128), ByteOr(Shr(v, 7)[1], 128),
           ByteOr(Shr(v, 14)[1], 128), ByteOr(Shr(v, 21)[1], 128),
           Shr(v, 28)[1] >>

\* encode_varint32(buf, v, offset): the bytes written at offset; their
\* number is the function's return value.  `x as u8` is the low byte of x
\* and B is 128.
encode_varint32(v) ==
    IF U32Less(v, U32(128)) THEN << v[1] >>
    ELSE IF U32Less(v, U32(16384)) THEN << ByteOr(v[1], 128), Shr(v, 7)[1] >>
    ELSE IF U32Less(v, U32(2097152)) THEN
        << ByteOr(v[1], 128), ByteOr(Shr(v, 7)[1], 128), Shr(v, 14)[1] >>
    ELSE IF U32Less(v, U32(268435456)) THEN
        << ByteOr(v[1], 128), ByteOr(Shr(v, 7)[1], 128),
           ByteOr(Shr(v, 14)[1], 128), Shr(v, 21)[1] >>
    ELSE
        << ByteOr(v[1], 128), ByteOr(Shr(v, 7)[1], 128),
           ByteOr(Shr(v, 14)[1], 128), ByteOr(Shr(v, 21)[1], 128),
           Shr(v, 28)[1] >>

\* varint_length(v), v a u64
RECURSIVE varint_length(_)
varint_length(v) ==
    IF ~U64Greater(U64(128), v, 8) THEN 1 + varint_length(Shr7(v)) ELSE 1

\* get_varint32_fallback with the loop bound taken as shift <= 35
RECURSIVE get_varint32_fallback_35(_, _, _, _, _, _)
get_varint32_fallback_35(buf, offset, limit, result, new_offset, shift) ==
    IF shift <= 35 /\ new_offset < limit THEN
        IF new_offset >= Len(buf) THEN
            [ok |-> "abort", value |-> U32(0), read |-> 0]
        ELSE LET byte == U32(At(buf, new_offset)) IN
             IF byte[1] >= 128 THEN
                 get_varint32_fallback_35(buf, offset, limit,
                     U32Or(result, Shl(U32(byte[1] % 128), shift)),
                     new_offset + 1, shift + 7)
             ELSE [ok |-> "ok", value |-> U32Or(result, Shl(byte, shift)),
                   read |-> new_offset + 1 - offset]
    ELSE [ok |-> "err", value |-> U32(0), read |-> 0]

\* get_varint32_fallback: [ok, value, read]; an index past the end of buf
\* aborts ("abort" in ok)
RECURSIVE get_varint32_fallback(_, _, _, _, _, _)
get_varint32_fallback(buf, offset, limit, result, new_offset, shift) ==
    IF shift <= 28 /\ new_offset < limit THEN
        IF new_offset >= Len(buf) THEN
            [ok |-> "abort", value |-> U32(0), read |-> 0]
        ELSE LET byte == U32(At(buf, new_offset)) IN
             IF byte[1] >= 128 THEN
                 get_varint32_fallback(buf, offset, limit,
                     U32Or(result, Shl(U32(byte[1] % 128), shift)),
                     new_offset + 1, shift + 7)
             ELSE [ok |-> "ok", value |-> U32Or(result, Shl(byte, shift)),
                   read |-> new_offset + 1 - offset]
    ELSE [ok |-> "err", value |-> U32(0), read |-> 0]

\* get_varint32(buf, offset, limit)
get_varint32(buf, offset, limit) ==
    IF offset < limit /\ offset >= Len(buf) THEN
        [ok |-> "abort", value |-> U32(0), read |-> 0]
    ELSE IF offset < limit /\ At(buf, offset) < 128 THEN
        [ok |-> "ok", value |-> U32(At(buf, offset)), read |-> 1]
    ELSE get_varint32_fallback(buf, offset, limit, U32(0), offset, 0)

\* put_varint32(dst, v): the bytes appended to dst; their number is the
\* function's return value
put_varint32(v) == LET buf == Zeros(5) IN encode_varint32(v)

\* encode_fixed64(buf, value, offset): the eight bytes written
encode_fixed64(value) == [i \in 1..8 |-> value[i]]

\* decode_fixed64(buf, offset): reads eight bytes through a raw pointer;
\* fewer than eight bytes left is an out-of-bounds read ("oob")
decode_fixed64(buf, offset) ==
    IF offset + 8 <= Len(buf) THEN Sub(buf, offset, offset + 8) ELSE "oob"

\* encode_fixed32(buf, value, offset): the four bytes written
encode_fixed32(value) == << value[1], value[2], value[3], value[4] >>

\* decode_fix32(buf)
decode_fix32(buf) == << buf[1], buf[2], buf[3], buf[4] >>

\* put_length_prefixed_slice(dst, value): the bytes appended to dst
put_length_prefixed_slice(value) == put_varint32(U32(Len(value))) \o value


(***************************************************************************)
(* random.rs                                                               *)
(***************************************************************************)
\* Random::next: seed * 16807 mod (2^31 - 1), computed as the code does
\* (product >> 31) + (product & M), in 16-bit pieces that fit TLC's integers
Random_next(seed) ==
    LET M  == 2147483647
        X  == (seed \div 65536) * 16807
        Y  == (seed % 65536) * 16807
        xh == X \div 32768
        s  == (X % 32768) * 65536
        q  == IF s > M - Y THEN xh + 1 ELSE xh
        r  == IF s > M - Y THEN s - (M - Y) - 1 ELSE s + Y
    IN  IF r > M - q THEN r - (M - q) ELSE q + r

\* Random::new(s), s given as its two 16-bit halves: s & 0x7fffffff, and 1
\* in place of 0 and 2^31 - 1
Random_new(hi, lo) ==
    LET seed == (hi % 32768) * 65536 + lo
    IN IF seed = 0 \/ seed = 2147483647 THEN 1 ELSE seed

(***************************************************************************)
(* dbformat.rs                                                             *)
(***************************************************************************)
KTypeDeletion == 0
KTypeValue == 1

\* ValueType::from(ordinal).  The first arm of the match is the identifier
\* pattern `ox0` (letter o), which binds every ordinal: the match always
\* takes it, and the arms 0x1 and _ are unreachable.
ValueType_from(ordinal) == KTypeDeletion

\* kValueTypeForSeek
kValueTypeForSeek == KTypeValue

\* the tests' user comparator: |a, b| a.data().cmp(b.data())
user_comparator(a, b) == bytes_cmp(a, b)

\* InternalKeyComparator::compare(akey, bkey): the user comparator is given
\* the whole internal keys (user key and tag); on Equal the tags decide
InternalKeyComparator_compare(akey, bkey) ==
    LET r == user_comparator(akey, bkey) IN
    IF r = "Equal" THEN
        LET anum == decode_fixed64(akey, Len(akey) - 8)
            bnum == decode_fixed64(bkey, Len(bkey) - 8)
        IN IF U64Greater(anum, bnum, 8) THEN "Less" ELSE "Greater"
    ELSE r

\* pack_sequence_and_type(seq, t): asserts seq <= kMaxSequenceNumber = 2^56-1
pack_sequence_and_type(seq, t) ==
    IF seq[8] # 0 THEN "abort" ELSE ShlOr(seq, t)

\* LookupKey::new(user_key, s): [buf, start, kstart, end]
LookupKey_new(user_key, s) ==
    LET usize  == Len(user_key)
        needed == usize + 13
        vi     == encode_varint32(U32(usize + 8))
        kstart == Len(vi)
        pak    == pack_sequence_and_type(s, kValueTypeForSeek)
        end    == kstart + usize + 8
        filled == vi \o user_key \o encode_fixed64(pak)
    IN [buf |-> filled \o Zeros(needed - Len(filled)),
        start |-> 0, kstart |-> kstart, end |-> end]

\* LookupKey::memtable_key
LookupKey_memtable_key(k) == Sub(k.buf, k.start, k.end)

\* LookupKey::user_key: the bytes from kstart to end; the 8-byte tag that
\* ends the buffer is part of the slice
LookupKey_user_key(k) == Sub(k.buf, k.kstart, k.end)

(***************************************************************************)
(* skiplist.rs                                                             *)
(* A list is [nodes, max_height, rand, comparator]; a node pointer is an   *)
(* index into nodes, head is node 1 and the null pointer is 0.             *)
(***************************************************************************)
MAX_HEIGHT == 12
NULL == 0
HEAD == 1

\* memtable.rs get_length_prefixed_slice(buf, offset); the entries it is
\* applied to were encoded by MemTable::add or LookupKey::new
mem_get_length_prefixed_slice(buf, offset) ==
    LET r == get_varint32(buf, offset, offset + 5)
    IN Sub(buf, offset + r.read, offset + r.read + U32ToNat(r.value))

\* KeyComparator::compare (memtable.rs)
KeyComparator_compare(akey, bkey) ==
    InternalKeyComparator_compare(mem_get_length_prefixed_slice(akey, 0),
                                  mem_get_length_prefixed_slice(bkey, 0))

\* KeyCmp::compare of the skiplist tests: a.cmp(b) on i32
KeyCmp_compare(a, b) ==
    IF a < b THEN "Less" ELSE IF a > b THEN "Greater" ELSE "Equal"

\* SkipList::compare: the call through comparator: Box<dyn Cmp<K>>
SkipList_compare(list, a, b) ==
    IF list.comparator = "KeyComparator" THEN KeyComparator_compare(a, b)
    ELSE KeyCmp_compare(a, b)

\* SkipList::new(comparator); key0 is K::default()
SkipList_new(comparator, key0) ==
    [nodes |-> << [key |-> key0, next |-> [i \in 1..MAX_HEIGHT |-> NULL]] >>,
     max_height |-> 1,
     rand |-> Random_new(57005, 48879),   \* Random::new(0xdeadbeef)
     comparator |-> comparator]

\* SkipList::key_is_after_node(key, n)
key_is_after_node(list, key, n) ==
    n # NULL /\ SkipList_compare(list, list.nodes[n].key, key) = "Less"

\* SkipList::find_greater_or_equal(key, ret_prev): the loop from (x, level);
\* [node, prev].  x is never null, so at level 0 the function returns
\* Some(&*next) also when next is null: node = NULL stands for that
\* reference to address 0.
RECURSIVE find_greater_or_equal_loop(_, _, _, _, _, _)
find_greater_or_equal_loop(list, key, ret_prev, x, level, prev) ==
    LET next == list.nodes[x].next[level + 1] IN
    IF key_is_after_node(list, key, next) THEN
        find_greater_or_equal_loop(list, key, ret_prev, next, level, prev)
    ELSE
        LET prev1 == IF ret_prev THEN [prev EXCEPT ![level + 1] = x] ELSE prev
        IN IF level = 0 THEN [node |-> next, prev |-> prev1]
           ELSE find_greater_or_equal_loop(list, key, ret_prev, x, level - 1, prev1)

find_greater_or_equal(list, key, ret_prev) ==
    find_greater_or_equal_loop(list, key, ret_prev, HEAD, list.max_height - 1,
                               [i \in 1..MAX_HEIGHT |-> NULL])

\* SkipList::random_height: [height, rand]
RECURSIVE random_height_loop(_, _)
random_height_loop(height, rand) ==
    IF height < MAX_HEIGHT /\ Random_next(rand) % 4 = 0
    THEN random_height_loop(height + 1, Random_next(rand))
    ELSE [height |-> height,
          rand |-> IF height < MAX_HEIGHT THEN Random_next(rand) ELSE rand]

random_height(list) == random_height_loop(1, list.rand)

\* insert that links the new node after head at every level of its height
SkipList_insert_at_head(list, key) ==
    LET rh     == random_height(list)
        height == rh.height
        prev   == [i \in 1..MAX_HEIGHT |-> HEAD]
        new    == Len(list.nodes) + 1
        linked == [n \in 1..Len(list.nodes) |->
                     [list.nodes[n] EXCEPT !.next =
                        [l \in DOMAIN list.nodes[n].next |->
                           IF l <= height /\ prev[l] = n THEN new
                           ELSE list.nodes[n].next[l]]]]
        node   == [key |-> key,
                   next |-> [l \in 1..height |-> list.nodes[prev[l]].next[l]]]
    IN [list EXCEPT !.nodes = Append(linked, node),
                    !.max_height = IF height > @ THEN height ELSE @,
                    !.rand = rh.rand]

\* SkipList::insert(key)
SkipList_insert(list, key) ==
    LET found  == find_greater_or_equal(list, key, TRUE)
        rh     == random_height(list)
        height == rh.height
        prev   == [i \in 1..MAX_HEIGHT |->
                     IF height > list.max_height /\ i > list.max_height /\ i <= height
                     THEN HEAD ELSE found.prev[i]]
        new    == Len(list.nodes) + 1
        linked == [n \in 1..Len(list.nodes) |->
                     [list.nodes[n] EXCEPT !.next =
                        [l \in DOMAIN list.nodes[n].next |->
                           IF l <= height /\ prev[l] = n THEN new
                           ELSE list.nodes[n].next[l]]]]
        node   == [key |-> key,
                   next |-> [l \in 1..height |-> list.nodes[prev[l]].next[l]]]
    IN [list EXCEPT !.nodes = Append(linked, node),
                    !.max_height = IF height > @ THEN height ELSE @,
                    !.rand = rh.rand]

\* Iter::seek(target): the node the iterator holds afterwards
Iter_seek(list, target) == find_greater_or_equal(list, target, FALSE).node

\* the loop of SkipList::find_less_than(key)
RECURSIVE find_less_than_loop(_, _, _, _)
find_less_than_loop(list, key, x, level) ==
    LET next == list.nodes[x].next[level + 1] IN
    IF next = NULL \/ SkipList_compare(list, list.nodes[next].key, key) # "Less"
    THEN IF level = 0 THEN x
         ELSE find_less_than_loop(list, key, x, level - 1)
    ELSE find_less_than_loop(list, key, next, level)

\* SkipList::find_less_than(key): the node returned (HEAD when no key is
\* smaller)
find_less_than(list, key) ==
    find_less_than_loop(list, key, HEAD, list.max_height - 1)

\* the loop of SkipList::find_last()
RECURSIVE find_last_loop(_, _, _)
find_last_loop(list, x, level) ==
    LET next == list.nodes[x].next[level + 1] IN
    IF next = NULL
    THEN IF level = 0 THEN x ELSE find_last_loop(list, x, level - 1)
    ELSE find_last_loop(list, next, level)

\* SkipList::find_last(): the node returned (HEAD on an empty list)
find_last(list) == find_last_loop(list, HEAD, list.max_height - 1)

\* SkipList::contains(key) when find_greater_or_equal returned Some(node)
\* for a node that exists, or its reference to address 0 read as None
SkipList_contains(list, key) ==
    LET x == find_greater_or_equal(list, key, FALSE).node IN
    IF x = NULL THEN FALSE
    ELSE SkipList_compare(list, key, list.nodes[x].key) = "Equal"

\* Iter::next(): the node held afterwards (NULL for None)
Iter_next(list, node) == list.nodes[node].next[1]

\* Iter::prev()
Iter_prev(list, node) ==
    LET n == find_less_than(list, list.nodes[node].key) IN
    IF n = HEAD THEN NULL ELSE n

\* Iter::seek_to_first()
Iter_seek_to_first(list) == list.nodes[HEAD].next[1]

\* Iter::seek_to_last()
Iter_seek_to_last(list) ==
    LET n == find_last(list) IN IF n = HEAD THEN NULL ELSE n

(***************************************************************************)
(* memtable.rs                                                             *)
(***************************************************************************)
\* MemTable::new(comparator)
MemTable_new == SkipList_new("KeyComparator", << >>)

\* the entry MemTable::add encodes
MemTable_entry(seq, valueType, key, value) ==
    encode_varint32(U32(Len(key) + 8)) \o key
    \o encode_fixed64(ShlOr(seq, valueType))
    \o encode_varint32(U32(Len(value))) \o value

\* MemTable::add(seq, valueType, key, value)
MemTable_add(mem, seq, valueType, key, value) ==
    SkipList_insert(mem, MemTable_entry(seq, valueType, key, value))

\* the outcomes of the reference find_greater_or_equal returns for a null
\* next: Option<&Node> holds address 0, which reads as None, or the build
\* (null-pointer check, or a use of the reference) stops the process
SeekOutcomes(node) == IF node = NULL THEN {"none", "abort"} ELSE {"some"}

\* MemTable::get(key) once the iterator stands on `node`:
\* [found, status, value]
MemTable_get_at(mem, key, node) ==
    LET buf        == mem.nodes[node].key
        r          == get_varint32(buf, 0, 5)
        key_length == U32ToNat(r.value)
        offset     == r.read
        notfound   == [found |-> FALSE, status |-> "NotFound", value |-> << >>]
    IN
    IF r.ok # "ok" THEN notfound
    ELSE IF user_comparator(Sub(buf, offset, (key_length - 8) + 1),
                            LookupKey_user_key(key)) = "Equal" THEN
        LET tag == decode_fixed64(buf, offset + key_length - 8) IN
        IF ValueType_from(tag[1]) = KTypeValue THEN
            [found |-> TRUE, status |-> "Ok",
             value |-> mem_get_length_prefixed_slice(buf, offset + key_length)]
        ELSE [found |-> TRUE, status |-> "NotFound", value |-> << >>]
    ELSE notfound

\* MemTable::get(key) for one outcome of the seek
MemTable_get(mem, key, outcome) ==
    LET node == Iter_seek(mem, LookupKey_memtable_key(key)) IN
    IF outcome = "abort" THEN [found |-> FALSE, status |-> "abort", value |-> << >>]
    ELSE IF outcome = "some" THEN MemTable_get_at(mem, key, node)
    ELSE [found |-> FALSE, status |-> "NotFound", value |-> << >>]

(***************************************************************************)
(* slice.rs.  write_batch.rs calls Slice::remove_prefix and Slice::empty,  *)
(* which slice.rs does not define; they are taken with their LevelDB       *)
(* meaning.                                                                *)
(***************************************************************************)
Slice_remove_prefix(data, n) == Sub(data, n, Len(data))

Slice_empty(data) == Len(data) = 0

(***************************************************************************)
(* write_batch.rs.  A WriteBatch is its rep, a byte string.                *)
(***************************************************************************)
K_HEADER == 12

\* WriteBatch::new, and the rep WriteBatch::clear leaves
WriteBatch_new == Zeros(K_HEADER)

\* count(b)
count(rep) == U32ToNat(decode_fix32(Sub(rep, 8, Len(rep))))

\* set_count(b, n)
set_count(rep, n) ==
    Sub(rep, 0, 8) \o encode_fixed32(U32(n)) \o Sub(rep, 12, Len(rep))

\* WriteBatch::put(key, value)
WriteBatch_put(rep, key, value) ==
    set_count(rep, count(rep) + 1) \o << KTypeValue >>
    \o put_length_prefixed_slice(key) \o put_length_prefixed_slice(value)

\* WriteBatch::delete(key)
WriteBatch_delete(rep, key) ==
    set_count(rep, count(rep) + 1) \o << KTypeDeletion >>
    \o put_length_prefixed_slice(key)

\* an append that copies the whole source, header included, after the
\* destination's records
append_with_header(rep, source) ==
    set_count(rep, count(rep) + count(source)) \o source

\* WriteBatch::append(source) and append(dst, src)
WriteBatch_append(rep, source) ==
    LET length == Len(source) - K_HEADER
    IN set_count(rep, count(rep) + count(source))
       \o Sub(source, K_HEADER, K_HEADER + length)

\* WriteBatch::set_sequence(seq)
WriteBatch_set_sequence(rep, seq) == encode_fixed64(seq) \o Sub(rep, 8, Len(rep))

\* sequence(b): decode_fixed64(&b.rep[8..], 0), the eight bytes that start
\* at offset 8 (the count and the four bytes after it); "oob" when the rep
\* has fewer than 16 bytes and the read runs past its end
sequence(rep) == decode_fixed64(Sub(rep, 8, Len(rep)), 0)

\* byte_size(batch)
byte_size(rep) == Len(rep)

\* WriteBatch::iterate(handler): [status, calls], calls being the handler
\* calls made, in order.  The loop runs `while input.empty()`: with records
\* after the header it is not entered; with none, its body indexes data[0]
\* of the empty slice and panics.  No path reaches a handler call.
WriteBatch_iterate(rep) ==
    LET input == Slice_remove_prefix(rep, K_HEADER) IN
    IF Slice_empty(input) THEN [status |-> "abort", calls |-> << >>, found |-> 1]
    ELSE [status |-> "ok", calls |-> << >>, found |-> 0]

\* MemTableInserter::put / MemTableInserter::delete for each handler call:
\* mem.add(sequence, type, key, value); sequence += 1
RECURSIVE MemTableInserter_handle(_, _, _)
MemTableInserter_handle(table, seq, calls) ==
    IF calls = << >> THEN table
    ELSE LET c == Head(calls) IN
         MemTableInserter_handle(
             MemTable_add(table, seq, c.type, c.key, c.value),
             U64Inc(seq, 1), Tail(calls))

\* insert_into(b, mem): [status, mem].  With fewer than 16 bytes in the rep
\* the inserter starts from the bytes read past it; no handler call uses it.
insert_into(rep, table) ==
    LET it == WriteBatch_iterate(rep) IN
    [status |-> it.status,
     mem |-> IF it.calls = << >> THEN table
             ELSE MemTableInserter_handle(table, sequence(rep), it.calls)]

\* set_contents(b, contents): [status, rep]; the assert panics on contents
\* shorter than a header
set_contents(rep, contents) ==
    IF Len(contents) >= K_HEADER THEN [status |-> "ok", rep |-> contents]
    ELSE [status |-> "abort", rep |-> rep]

(***************************************************************************)
(* db.rs: the group of a write.                                            *)
(***************************************************************************)
\* the loop of build_batch_group without the break on a sync writer
RECURSIVE build_batch_group_loop_nosync(_, _, _, _)
build_batch_group_loop_nosync(ws, i, size, max_size) ==
    IF i > Len(ws) THEN << >>
    ELSE LET size1 == size + byte_size(ws[i].batch) IN
         IF size1 > max_size THEN << >>
         ELSE << i >> \o build_batch_group_loop_nosync(ws, i + 1, size1, max_size)

\* the loop of DB::build_batch_group over writers[i..]: the indices of the
\* writers whose batch is appended to temp_batch.  first is writers[1], the
\* front of the queue.
RECURSIVE build_batch_group_loop(_, _, _, _)
build_batch_group_loop(ws, i, size, max_size) ==
    IF i > Len(ws) THEN << >>
    ELSE IF ~ws[1].sync /\ ws[i].sync THEN << >>
    ELSE LET size1 == size + byte_size(ws[i].batch) IN
         IF size1 > max_size THEN << >>
         ELSE << i >> \o build_batch_group_loop(ws, i + 1, size1, max_size)

\* DB::build_batch_group(writers): size starts at the front writer's size and
\* the loop starts at the front writer
build_batch_group(ws) ==
    LET size     == byte_size(ws[1].batch)
        max_size == IF size <= 131072 THEN size + 131072 ELSE 1048576
    IN build_batch_group_loop(ws, 1, size, max_size)

\* result.append(&w.batch) for the writers of the group, in order
RECURSIVE append_group(_, _, _)
append_group(rep, ws, group) ==
    IF group = << >> THEN rep
    ELSE append_group(WriteBatch_append(rep, ws[Head(group)].batch), ws, Tail(group))

(***************************************************************************)
(* util/crc.rs: CRC-32C (the crc crate's CRC_32_ISCSI: reflected           *)
(* polynomial 0x82F63B78, initial value and final xor 0xFFFFFFFF), computed *)
(* bit by bit on the 32 bits of the register, least significant first.     *)
(***************************************************************************)
\* a register of 32 bits as a sequence
Word(f) == SubSeq(f, 1, 32)

\* the 32 bits of a u32, least significant first, and the u32 of 32 bits
Bits(u) ==
    Word([i \in 1..32 |-> (u[((i - 1) \div 8) + 1] \div (2 ^ ((i - 1) % 8))) % 2])

FromBits(bits) ==
    SubSeq([k \in 1..4 |->
              LET o == 8 * (k - 1) IN
              bits[o + 1] + 2 * bits[o + 2] + 4 * bits[o + 3] + 8 * bits[o + 4]
              + 16 * bits[o + 5] + 32 * bits[o + 6] + 64 * bits[o + 7]
              + 128 * bits[o + 8]], 1, 4)

BitXor(a, b) == Word([i \in 1..32 |-> (a[i] + b[i]) % 2])

BitNot(a) == Word([i \in 1..32 |-> 1 - a[i]])

\* a >> n and a << n on u32
BitShr(a, n) == Word([i \in 1..32 |-> IF i + n <= 32 THEN a[i + n] ELSE 0])

BitShl(a, n) == Word([i \in 1..32 |-> IF i - n >= 1 THEN a[i - n] ELSE 0])

BitOr(a, b) == Word([i \in 1..32 |-> IF a[i] + b[i] > 0 THEN 1 ELSE 0])

\* a + b and a - b, wrapping at 2^32
RECURSIVE BitAdd(_, _, _, _)
BitAdd(a, b, i, carry) ==
    IF i > 32 THEN << >>
    ELSE LET s == a[i] + b[i] + carry IN
         << s % 2 >> \o BitAdd(a, b, i + 1, s \div 2)

RECURSIVE BitSub(_, _, _, _)
BitSub(a, b, i, borrow) ==
    IF i > 32 THEN << >>
    ELSE LET d == a[i] - b[i] - borrow IN
         << (d + 2) % 2 >> \o BitSub(a, b, i + 1, IF d < 0 THEN 1 ELSE 0)

\* CRC_32_ISCSI: the polynomial, reflected
CASTAGNOLI == Bits(<< 120, 59, 246, 130 >>)

\* one bit of the register
digest_bit(reg) ==
    IF reg[1] = 1 THEN BitXor(BitShr(reg, 1), CASTAGNOLI) ELSE BitShr(reg, 1)

\* Digest::update for one byte
digest_byte(reg, byte) ==
    LET r0 == BitXor(reg, Bits(<< byte, 0, 0, 0 >>)) IN
    digest_bit(digest_bit(digest_bit(digest_bit(
        digest_bit(digest_bit(digest_bit(digest_bit(r0))))))))

\* Digest::update (a register is never empty: the test has the register
\* computed byte by byte)
RECURSIVE digest_update(_, _)
digest_update(reg, data) ==
    IF data = << >> \/ reg = << >> THEN reg
    ELSE digest_update(digest_byte(reg, Head(data)), Tail(data))

\* value(data)
crc_value(data) == FromBits(BitNot(digest_update(Bits(<< 255, 255, 255, 255 >>), data)))

\* extend as log_writer.rs calls it, with a running u32 checksum as its first
\* argument: crc_value(a || b) = crc_extend(crc_value(a), b)
crc_extend(crc, data) ==
    FromBits(BitNot(digest_update(BitNot(Bits(crc)), data)))

kMaskDelta == << 216, 234, 130, 162 >>

\* mask with the rotation taken as (crc >> 16) | (crc << 16)
mask_rot16(crc) ==
    LET c == Bits(crc) IN
    FromBits(BitAdd(BitOr(BitShr(c, 16), BitShl(c, 16)), Bits(kMaskDelta), 1, 0))

\* mask(crc)
mask(crc) ==
    LET c == Bits(crc) IN
    FromBits(BitAdd(BitOr(BitShr(c, 15), BitShl(c, 17)), Bits(kMaskDelta), 1, 0))

\* unmask(masked_crc)
unmask(masked_crc) ==
    LET rot == BitSub(Bits(masked_crc), Bits(kMaskDelta), 1, 0) IN
    FromBits(BitOr(BitShr(rot, 17), BitShl(rot, 15)))

(***************************************************************************)
(* log_format: the record types and sizes of the log.  Blocks of           *)
(* kBlockSize bytes; the model scales the block size down and keeps every  *)
(* computation on it as the code has it.                                   *)
(***************************************************************************)
kHeaderSize == 7

kZeroType == 0
kFullType == 1
kFirstType == 2
kMiddleType == 3
kLastType == 4

kMaxRecordType == kLastType

(***************************************************************************)
(* env.rs: MemoryWritableFile and MemorySequentialFile.                    *)
(***************************************************************************)
\* MemoryWritableFile::append: the memory after the call
MemoryWritableFile_append(memory, data) == memory \o data

\* MemorySequentialFile::new(memory)
MemorySequentialFile_new(memory) == [memory |-> memory, offset |-> 0]

\* MemorySequentialFile::read(scratch): the file, the scratch buffer and the
\* length of the returned slice after the call
MemorySequentialFile_read(file, scratch) ==
    LET memory_offset == file.offset
        memory_end == Min(memory_offset + Len(scratch), Len(file.memory))
        len == memory_end - memory_offset
    IN [file |-> [file EXCEPT !.offset = memory_end],
        scratch |-> Sub(file.memory, memory_offset, memory_end)
                    \o Sub(scratch, len, Len(scratch)),
        len |-> len]

(***************************************************************************)
(* log_writer.rs.  A Writer is [dest, block_offset]; dest is the content   *)
(* of the destination file.                                                *)
(***************************************************************************)
\* init_type_crc
type_crc(record_type) == crc_value(<< record_type >>)

\* Writer::new(dest)
Writer_new(dest) == [dest |-> dest, block_offset |-> 0]

\* emit_physical_record(record_type, data)
emit_physical_record(w, record_type, data) ==
    LET length == Len(data)
        crc == mask(crc_extend(type_crc(record_type), data))
        buf == encode_fixed32(crc)
               \o << length % 256, (length \div 256) % 256, record_type >>
    IN [dest |-> MemoryWritableFile_append(
                     MemoryWritableFile_append(w.dest, buf), data),
        block_offset |-> w.block_offset + kHeaderSize + length]

\* add_record's loop without the zero fill of a block tail shorter than a
\* header
RECURSIVE add_record_loop_nofill(_, _, _, _, _)
add_record_loop_nofill(w, data, left, offset, begin) ==
    LET leftover == kBlockSize - w.block_offset
        w1 == IF leftover < kHeaderSize
              THEN [dest |-> w.dest, block_offset |-> 0]
              ELSE w
        avail == kBlockSize - w1.block_offset - kHeaderSize
        fragment_length == IF left < avail THEN left ELSE avail
        end == (left = fragment_length)
        record_type == IF begin /\ end THEN kFullType
                       ELSE IF begin THEN kFirstType
                       ELSE IF end THEN kLastType
                       ELSE kMiddleType
        w2 == emit_physical_record(w1, record_type,
                                   Sub(data, offset, offset + fragment_length))
    IN IF left - fragment_length <= 0 THEN w2
       ELSE add_record_loop_nofill(w2, data, left - fragment_length,
                                   offset + fragment_length, FALSE)

\* the loop of add_record
RECURSIVE add_record_loop(_, _, _, _, _)
add_record_loop(w, data, left, offset, begin) ==
    LET leftover == kBlockSize - w.block_offset
        w1 == IF leftover < kHeaderSize
              THEN [dest |-> IF leftover > 0
                             THEN MemoryWritableFile_append(w.dest, Zeros(leftover))
                             ELSE w.dest,
                    block_offset |-> 0]
              ELSE w
        avail == kBlockSize - w1.block_offset - kHeaderSize
        fragment_length == IF left < avail THEN left ELSE avail
        end == (left = fragment_length)
        record_type == IF begin /\ end THEN kFullType
                       ELSE IF begin THEN kFirstType
                       ELSE IF end THEN kLastType
                       ELSE kMiddleType
        w2 == emit_physical_record(w1, record_type,
                                   Sub(data, offset, offset + fragment_length))
    IN IF left - fragment_length <= 0 THEN w2
       ELSE add_record_loop(w2, data, left - fragment_length,
                            offset + fragment_length, FALSE)

\* add_record with begin false from the start
add_record_nobegin(w, slice) == add_record_loop(w, slice, Len(slice), 0, FALSE)

\* add_record(slice)
add_record(w, slice) == add_record_loop(w, slice, Len(slice), 0, TRUE)

(***************************************************************************)
(* log_reader.rs.                                                          *)
(***************************************************************************)
K_FULL_TYPE == kFullType
K_FIRST_TYPE == kFirstType
K_MIDDLE_TYPE == kMiddleType
K_LAST_TYPE == kLastType

kEof == kMaxRecordType + 1

kBadRecord == kMaxRecordType + 2

\* Reader::new(file, checksum, initial_offset)
Reader_new(file, checksum, initial_offset) ==
    [file |-> file, checksum |-> checksum, buffer |-> Zeros(kBlockSize),
     eof |-> FALSE, last_record_offset |-> 0, end_of_buffer_offset |-> 0,
     initial_offset |-> initial_offset, resyncing |-> initial_offset > 0,
     skip_size |-> 0]

\* read_physical_record(): the reader after the call and what it returned:
\* Ok((type, length)), Err(type), or a panic on a slice index out of range
\* ("abort").  file.read is MemorySequentialFile::read, which never fails.
read_physical_record(r) ==
    LET rd == MemorySequentialFile_read(r.file, r.buffer)
        buf_len == rd.len
        buf == rd.scratch
        size == Len(buf)
        r1 == [r EXCEPT !.skip_size = 0, !.file = rd.file, !.buffer = buf,
                        !.end_of_buffer_offset = @ + buf_len,
                        !.eof = IF size < kBlockSize THEN TRUE ELSE @]
        header == Sub(buf, 0, buf_len)
        length == At(header, 4) + At(header, 5) * 256
        type_ == At(header, 6)
        Err(rr, e) == [reader |-> rr, res |-> "err", type |-> e, length |-> 0]
    IN IF r.eof THEN Err([r EXCEPT !.skip_size = 0], kEof)
       ELSE IF buf_len <= 6
       THEN [reader |-> r1, res |-> "abort", type |-> 0, length |-> 0]
       ELSE IF kHeaderSize + length > size THEN Err(r1, kEof)
       ELSE IF type_ = kZeroType /\ length = 0 THEN Err(r1, kBadRecord)
       ELSE IF r.checksum
               /\ crc_value(Sub(header, 6, buf_len))
                  # unmask(decode_fix32(Sub(header, 0, 4)))
       THEN Err(r1, kBadRecord)
       ELSE IF kHeaderSize + length > buf_len
       THEN [reader |-> r1, res |-> "abort", type |-> 0, length |-> 0]
       ELSE LET prefix_removed == Sub(header, kHeaderSize + length, buf_len) IN
            IF r.end_of_buffer_offset + buf_len - Len(prefix_removed)
               - kHeaderSize - length < r.initial_offset
            THEN Err([r1 EXCEPT !.skip_size = size], kBadRecord)
            ELSE [reader |-> r1, res |-> "ok", type |-> type_, length |-> length]

\* the loop of read_record: the reader after the call, the status returned
\* ("Ok", "IOError", or "abort" for a panic) and the bytes of the returned
\* slice
RECURSIVE read_record_loop(_, _, _)
read_record_loop(r, scratch, in_fragmented_record) ==
    LET p == read_physical_record(r)
        buf == p.reader.buffer
        data_pos == p.length
        physical_record_offset == 0
    IN IF p.res = "abort"
       THEN [reader |-> p.reader, status |-> "abort", data |-> << >>]
       ELSE IF p.res = "ok"
       THEN CASE p.type = K_FULL_TYPE ->
                   [reader |-> [p.reader EXCEPT
                                   !.last_record_offset = physical_record_offset],
                    status |-> "Ok",
                    data |-> Sub(buf, kHeaderSize, Len(buf))]
              [] p.type = K_FIRST_TYPE ->
                   read_record_loop(p.reader,
                                    scratch \o Sub(buf, data_pos, Len(buf)), TRUE)
              [] p.type = K_MIDDLE_TYPE ->
                   IF ~in_fragmented_record
                   THEN read_record_loop(p.reader, scratch, in_fragmented_record)
                   ELSE read_record_loop(p.reader,
                                         scratch \o Sub(buf, data_pos, Len(buf)),
                                         in_fragmented_record)
              [] p.type = K_LAST_TYPE ->
                   IF ~in_fragmented_record
                   THEN read_record_loop(p.reader, scratch, in_fragmented_record)
                   ELSE [reader |-> [p.reader EXCEPT !.last_record_offset = 0],
                         status |-> "Ok",
                         data |-> scratch \o Sub(buf, data_pos, Len(buf))]
              [] OTHER ->
                   [reader |-> p.reader, status |-> "IOError", data |-> << >>]
       ELSE IF p.type = kEof
       THEN [reader |-> p.reader, status |-> "Ok", data |-> << >>]
       ELSE [reader |-> p.reader, status |-> "IOError", data |-> << >>]

\* read_record(scratch)
read_record(r) == read_record_loop(r, << >>, FALSE)

(***************************************************************************)
(* env.rs: PosixWritableFile.  A PosixWritableFile is [buf, pos, file];    *)
(* file is what has been written to the descriptor.  File::write is taken  *)
(* to write all the bytes it is given.                                     *)
(***************************************************************************)
\* PosixWritableFile::new(filename, file)
PosixWritableFile_new(file) ==
    [buf |-> Zeros(kWritableFileBufferSize), pos |-> 0, file |-> file]

\* write_unbuffered(file, data, size)
write_unbuffered(file, data, size) == file \o Sub(data, 0, size)

\* flush_buffer()
flush_buffer(f) ==
    [f EXCEPT !.file = write_unbuffered(f.file, f.buf, f.pos), !.pos = 0]

\* PosixWritableFile::append(data); Vec::write appends to the end of buf
PosixWritableFile_append(f, data) ==
    LET write_data == data
        write_size == Len(data)
        copy_size == Min(write_size, kWritableFileBufferSize - f.pos)
        size == copy_size
        write_offset == size
        f1 == [f EXCEPT !.buf = @ \o Sub(write_data, 0, copy_size),
                        !.pos = @ + size]
        f2 == flush_buffer(f1)
    IN IF write_size <= write_offset THEN f1
       ELSE IF write_size - write_offset < kWritableFileBufferSize
       THEN [f2 EXCEPT !.buf = @ \o Sub(write_data, size, write_size)]
       ELSE [f2 EXCEPT !.file = write_unbuffered(@, write_data,
                                                 write_size - write_offset)]

\* PosixWritableFile::flush()
PosixWritableFile_flush(f) == flush_buffer(f)

\* PosixWritableFile::sync(): sync_all on the descriptor
PosixWritableFile_sync(f) == f

(***************************************************************************)
(* filename.rs.  Names are strings of ASCII codes.                         *)
(***************************************************************************)
\* the decimal digits of number
RECURSIVE Decimal(_)
Decimal(number) ==
    IF number < 10 THEN << 48 + number >>
    ELSE Decimal(number \div 10) \o << 48 + (number % 10) >>

\* format!("{:06}", number)
Format06(number) ==
    LET d == Decimal(number)
    IN IF Len(d) >= 6 THEN d
       ELSE SubSeq([i \in 1..(6 - Len(d)) |-> 48], 1, 6 - Len(d)) \o d

\* make_file_name(path, number, suffix): "{}/{:06}.{}"
make_file_name(path, number, suffix) ==
    path \o << 47 >> \o Format06(number) \o << 46 >> \o suffix

\* file_name(dbname, name)
file_name(dbname, name) == dbname \o name

\* current_file_name(dbname): dbname + "/CURRENT"
current_file_name(dbname) ==
    file_name(dbname, << 47, 67, 85, 82, 82, 69, 78, 84 >>)

\* descriptor_file_name(dbname, number): "{}/MANIFEST-{:06}.{}" with ""
descriptor_file_name(dbname, number) ==
    dbname \o << 47, 77, 65, 78, 73, 70, 69, 83, 84, 45 >> \o Format06(number)
           \o << 46 >> \o << >>

\* temp_file_name(dbname, number)
temp_file_name(dbname, number) ==
    make_file_name(dbname, number, << 100, 98, 116, 109, 112 >>)

(***************************************************************************)
(* env.rs: the functions over file names.  A file system is a function     *)
(* from the names of the files that exist to their contents.               *)
(***************************************************************************)
FsWrite(fsys, name, content) ==
    [n \in DOMAIN fsys \cup {name} |-> IF n = name THEN content ELSE fsys[n]]

\* new_writable_file(filename): create or truncate
new_writable_file(fsys, filename) == FsWrite(fsys, filename, << >>)

\* remove_file(fname): Ok(()) and nothing else
remove_file(fsys, fname) == fsys

\* rename_file(from, to): Ok(()) and nothing else
rename_file(fsys, from, to) == fsys

\* write_string_to_file_sync(data, fname, should_sync): the file system when
\* the PosixWritableFile has been dropped; append and sync return Ok
write_string_to_file_sync(fsys, data, fname, should_sync) ==
    LET fs1 == new_writable_file(fsys, fname)
        file == PosixWritableFile_append(PosixWritableFile_new(fs1[fname]), data)
        synced == IF should_sync THEN PosixWritableFile_sync(file) ELSE file
    IN FsWrite(fs1, fname, synced.file)

\* set_current_file(dbname, descriptor_number): [status, fs]
set_current_file(fsys, dbname, descriptor_number) ==
    LET manifest == descriptor_file_name(dbname, descriptor_number)
        contents == Slice_remove_prefix(manifest, Len(dbname) + 1)
        tmp == temp_file_name(dbname, descriptor_number)
        data == contents \o << 47 >>
        written == write_string_to_file_sync(fsys, data, tmp, TRUE)
    IN [status |-> "Ok",
        fs |-> rename_file(written, tmp, current_file_name(dbname))]

\* read_file_to_bytes(fname) and new_sequential_file(fname), which env.rs
\* does not define: the content of the named file, or NotFound
read_file_to_bytes(fsys, fname) ==
    IF fname \in DOMAIN fsys THEN [status |-> "Ok", bytes |-> fsys[fname]]
    ELSE [status |-> "NotFound", bytes |-> << >>]

new_sequential_file(fsys, fname) ==
    IF fname \in DOMAIN fsys
    THEN [status |-> "Ok", file |-> MemorySequentialFile_new(fsys[fname])]
    ELSE [status |-> "NotFound", file |-> MemorySequentialFile_new(<< >>)]

(***************************************************************************)
(* version_edit.rs.  A VersionEdit is a record of its five numbers' fields *)
(* and has_ flags; numbers are below 2^28.  put_varint64 and get_varint64, *)
(* which coding.rs does not define, are the varint coding of a u64.        *)
(***************************************************************************)
kComparator == 1
kLogNumber == 2
kNextFileNumber == 3
kLastSequence == 4
kCompactPointer == 5
kDeletedFile == 6
kNewFile == 7
kPrevLogNumber == 9

Tags == { kComparator, kLogNumber, kNextFileNumber, kLastSequence,
          kCompactPointer, kDeletedFile, kNewFile, kPrevLogNumber }

put_varint64(v) == encode_varint32(U32(v))

get_varint64(buf, offset, limit) ==
    [get_varint32(buf, offset, limit) EXCEPT !.value = U32ToNat(@)]

\* VersionEdit::default()
VersionEdit_default ==
    [log_number |-> 0, prev_log_number |-> 0, next_file_number |-> 0,
     last_sequence |-> 0, has_comparator |-> FALSE, has_log_number |-> FALSE,
     has_pre_log_number |-> FALSE, has_next_file_number |-> FALSE,
     has_last_sequence |-> FALSE]

\* VersionEdit::new("", log_number, next_file_number, last_sequence)
VersionEdit_new(log_number, next_file_number, last_sequence) ==
    [VersionEdit_default EXCEPT
        !.log_number = log_number, !.has_log_number = TRUE,
        !.next_file_number = next_file_number, !.has_next_file_number = TRUE,
        !.last_sequence = last_sequence, !.has_last_sequence = TRUE]

\* encode_to(dst): the bytes appended; the edits here have no comparator,
\* compact pointers or files
encode_to(edit) ==
    (IF edit.has_log_number
     THEN encode_varint32(U32(kLogNumber)) \o put_varint64(edit.log_number)
     ELSE << >>)
    \o (IF edit.has_pre_log_number
        THEN encode_varint32(U32(kPrevLogNumber)) \o put_varint64(edit.prev_log_number)
        ELSE << >>)
    \o (IF edit.has_next_file_number
        THEN encode_varint32(U32(kNextFileNumber))
             \o put_varint64(edit.next_file_number)
        ELSE << >>)
    \o (IF edit.has_last_sequence
        THEN encode_varint32(U32(kLastSequence)) \o put_varint64(edit.last_sequence)
        ELSE << >>)

\* the loop of decode_from.  The tag is read at offset 0 in every turn and
\* offset grows by its length, so the tag never changes.  With a number tag,
\* once get_varint64 fails the turns repeat for ever with a growing offset
\* ("hang"); with any other tag the slice input[offset..] panics once offset
\* passes the end of input ("abort").  Leaving the loop returns
\* Err(Corruption).
RECURSIVE decode_from_loop(_, _, _)
decode_from_loop(input, offset, version_edit) ==
    LET limit == Len(input)
        t == [get_varint32(input, 0, limit) EXCEPT !.value = U32ToNat(@)]
    IN IF t.ok # "ok" \/ t.value \notin Tags
       THEN [status |-> "Corruption", edit |-> version_edit]
       ELSE LET off == offset + t.read
                v == get_varint64(input, off, limit)
            IN IF t.value \notin {kLogNumber, kPrevLogNumber, kNextFileNumber,
                                  kLastSequence}
               THEN [status |-> "abort", edit |-> version_edit]
               ELSE IF v.ok # "ok"
               THEN [status |-> "hang", edit |-> version_edit]
               ELSE decode_from_loop(input, off + v.read,
                      CASE t.value = kLogNumber ->
                             [version_edit EXCEPT !.log_number = v.value,
                                                  !.has_log_number = TRUE]
                        [] t.value = kPrevLogNumber ->
                             [version_edit EXCEPT !.prev_log_number = v.value,
                                                  !.has_pre_log_number = TRUE]
                        [] t.value = kNextFileNumber ->
                             [version_edit EXCEPT !.next_file_number = v.value,
                                                  !.has_next_file_number = TRUE]
                        [] OTHER ->
                             [version_edit EXCEPT !.last_sequence = v.value,
                                                  !.has_last_sequence = TRUE])

\* VersionEdit::decode_from(input)
decode_from(input) == decode_from_loop(input, 0, VersionEdit_default)

(***************************************************************************)
(* version_set.rs.  A VersionSet is [last_sequence, next_file_number].     *)
(***************************************************************************)
\* VersionSet::new(db_name)
VersionSet_new == [last_sequence |-> 0, next_file_number |-> 0]

\* mark_file_number_used(number)
mark_file_number_used(vs, number) ==
    IF vs.next_file_number < number
    THEN [vs EXCEPT !.next_file_number = number + 1]
    ELSE vs

\* the numbers and have_ flags of prepare after an edit
apply_edit(have, edit) ==
    [log_number |-> IF edit.has_log_number THEN edit.log_number
                    ELSE have.log_number,
     have_log_number |-> have.have_log_number \/ edit.has_log_number,
     prev_log_number |-> IF edit.has_pre_log_number THEN edit.prev_log_number
                         ELSE have.prev_log_number,
     have_prev_log_number |->
         have.have_prev_log_number \/ edit.has_pre_log_number,
     next_file |-> IF edit.has_next_file_number THEN edit.next_file_number
                   ELSE have.next_file,
     have_next_file |-> have.have_next_file \/ edit.has_next_file_number,
     last_sequence |-> IF edit.has_last_sequence THEN edit.last_sequence
                       ELSE have.last_sequence,
     have_last_sequence |-> have.have_last_sequence \/ edit.has_last_sequence]

\* the loop of prepare over the records of the manifest: the have_ flags and
\* numbers collected, or the way the loop did not end.  prepare_record is a
\* turn after read_record returned record, prepare_edit the rest of the turn
\* after decode_from returned d.
RECURSIVE prepare_loop(_, _)
RECURSIVE prepare_record(_, _)
RECURSIVE prepare_edit(_, _, _)
prepare_loop(reader, have) == prepare_record(read_record(reader), have)

prepare_record(record, have) ==
    IF record.status = "abort" THEN [status |-> "abort", have |-> have]
    ELSE IF record.status # "Ok" THEN [status |-> "Ok", have |-> have]
    ELSE prepare_edit(record.reader, decode_from(record.data), have)

prepare_edit(reader, d, have) ==
    IF d.status = "Corruption" THEN prepare_loop(reader, have)
    ELSE IF d.status # "Ok" THEN [status |-> d.status, have |-> have]
    ELSE prepare_loop(reader, apply_edit(have, d.edit))

\* the end of prepare, after the loop
prepare_result(vs, looped) ==
    LET have == looped.have
        prev_log_number == IF ~have.have_prev_log_number THEN 0
                           ELSE have.prev_log_number
    IN IF looped.status # "Ok" THEN [status |-> looped.status, vs |-> vs]
       ELSE [status |-> IF ~have.have_next_file \/ ~have.have_log_number
                           \/ ~have.have_last_sequence
                        THEN "Corruption" ELSE "Ok",
             vs |-> mark_file_number_used(
                        mark_file_number_used(vs, prev_log_number),
                        have.log_number)]

\* VersionSet::prepare(save_manifest): [status, vs]
prepare(vs, fsys, dbname) ==
    LET cur == read_file_to_bytes(fsys, current_file_name(dbname))
        bytes == cur.bytes
        current == Sub(bytes, 0, Len(bytes) - 1)
        dscname == dbname \o << 47 >> \o current
        opened == new_sequential_file(fsys, dscname)
        have0 == [log_number |-> 0, have_log_number |-> FALSE,
                  prev_log_number |-> 0, have_prev_log_number |-> FALSE,
                  next_file |-> 0, have_next_file |-> FALSE,
                  last_sequence |-> 0, have_last_sequence |-> FALSE]
    IN IF cur.status # "Ok" THEN [status |-> cur.status, vs |-> vs]
       ELSE IF bytes = << >> \/ bytes[Len(bytes)] # 10
       THEN [status |-> "Corruption", vs |-> vs]
       ELSE IF opened.status # "Ok" THEN [status |-> "Corruption", vs |-> vs]
       ELSE prepare_result(vs,
                prepare_loop(Reader_new(opened.file, TRUE, 0), have0))

(***************************************************************************)
(* State.                                                                  *)
(***************************************************************************)
VARIABLES
    mem,            \* the MemTable (DB.mem; the memtable scenario's table)
    added,          \* memtable scenario: the add calls made, in order
    got,            \* the last get call and what it returned
    aborted,        \* the process has panicked or crashed
    writers,        \* DB.writers: the queue of Writer {batch, sync, done}
    last_sequence,  \* DB.versions.last_sequence
    temp_batch,     \* DB.temp_batch: the rep of the scratch batch
    wal,            \* DB.log / DB.logfile: the add_record and sync calls that
                    \* returned Ok, in order
    calls,          \* history: the write calls made, in order; call i is the
                    \* call that pushed writers[i]
    temp_ids,       \* history: the calls whose batches temp_batch holds
    log_writer,     \* log scenario: the log::Writer and its destination file
    records,        \* log scenario: the payloads given to add_record, in order
    log_reader,     \* log scenario: the log::Reader over the file, once opened
    reads,          \* log scenario: what the read_record calls returned
    wb,             \* batch scenario: a WriteBatch [rep], with the operations
                    \* it was given since the last clear [ops] and whether
                    \* only put, delete, append and clear built it [built]
    wb_call,        \* batch scenario: the last iterate or append call
    list,           \* list scenario: a SkipList<i32> ordered by KeyCmp
    inserted,       \* list scenario: the keys given to insert
    iter,           \* list scenario: Iter.node of an iterator on the list
                    \* (NULL for None)
    list_call,      \* list scenario: the last contains or iterator call
    clist,          \* concurrent list scenario: the SkipList<i32> as the
                    \* inserting thread sees it
    unseen,         \* concurrent list scenario: the stores of the inserting
                    \* thread that the reading thread does not see yet, in
                    \* program order
    cw,             \* concurrent list scenario: the inserting thread
    cr,             \* concurrent list scenario: the reading thread
    pfile,          \* file scenario: a PosixWritableFile and its descriptor
    pappended,      \* file scenario: the bytes given to append, in order
    pcall,          \* file scenario: the last call
    fs,             \* manifest scenario: the files of the database directory
    versions,       \* manifest scenario: the VersionSet
    installed,      \* manifest scenario: the manifest a complete CURRENT names
    vcall,          \* manifest scenario: the last call and what it returned
    cmp,            \* comparator scenario: the last compare calls
    frags,          \* fragment scenario: the types of the physical records
                    \* of the file, in file order
    pure            \* the last call of a function of coding.rs, crc.rs or
                    \* of DB::build_batch_group and what it returned

vars == << mem, added, got, aborted, writers, last_sequence, temp_batch, wal,
           calls, temp_ids, log_writer, records, log_reader, reads,
           wb, wb_call, list, inserted, iter, list_call,
           clist, unseen, cw, cr,
           pfile, pappended, pcall, fs, versions, installed, vcall, cmp,
           frags, pure >>

fileVars == << pfile, pappended, pcall >>

verVars == << fs, versions, installed, vcall >>

callVars == << frags, pure >>

envVars == << fileVars, verVars, cmp, callVars >>

concVars == << clist, unseen, cw, cr >>

batchVars == << wb, wb_call >>

listVars == << list, inserted, iter, list_call >>

\* the variables of the scenarios other than memtable, DB and log
otherVars == << batchVars, listVars, concVars, envVars >>

logVars == << log_writer, records, log_reader, reads >>

dbVars == << writers, last_sequence, temp_batch, wal, calls, temp_ids >>

\* log_reader before a Reader is constructed
NoReader == [checksum |-> FALSE, eof |-> TRUE]

\* the log scenario has not started
LogIdle ==
    /\ log_writer = Writer_new(<< >>)
    /\ records = << >>
    /\ log_reader = NoReader
    /\ reads = << >>

\* wb_call when the last call on the batch was neither iterate nor append
NoCall == [op |-> "none"]

\* the batch scenario has not started: WriteBatch::new
BatchIdle ==
    /\ wb = [rep |-> WriteBatch_new, ops |-> << >>, built |-> TRUE]
    /\ wb_call = NoCall

\* the list scenario has not started: SkipList::new, Iter::new
ListIdle ==
    /\ list = SkipList_new("KeyCmp", 0)
    /\ inserted = {}
    /\ iter = NULL
    /\ list_call = NoCall

\* the threads of the concurrent list scenario before their first call
WriterIdle == [pc |-> "idle", key |-> 0, prev |-> << >>, height |-> 0,
               new |-> NULL, level |-> 0, done |-> {}]

ReaderIdle == [pc |-> "idle", key |-> 0, x |-> HEAD, level |-> 0, must |-> {},
               result |-> FALSE]

ConcIdle ==
    /\ clist = SkipList_new("KeyCmp", 0)
    /\ unseen = << >>
    /\ cw = WriterIdle
    /\ cr = ReaderIdle

\* the database directory of the manifest scenario: "db"
DbName == << 100, 98 >>

EnvIdle ==
    /\ pfile = PosixWritableFile_new(<< >>)
    /\ pappended = << >>
    /\ pcall = NoCall
    /\ fs = << >>
    /\ versions = VersionSet_new
    /\ installed = [number |-> 0, edits |-> << >>]
    /\ vcall = NoCall
    /\ cmp = NoCall
    /\ frags = << >>
    /\ pure = NoCall

OtherIdle == BatchIdle /\ ListIdle /\ ConcIdle /\ EnvIdle

\* user keys and values of the scenarios
Keys == { << 97 >>, << 98 >> }
Values == { << 49 >>, << 50 >> }

\* got: the key and snapshot of a get made in the current state and what it
\* returned; NoGet after a call that changes the DB or the table
NoGet == [key |-> << >>, snapshot |-> 0, found |-> FALSE, status |-> "none",
          value |-> << >>]

(***************************************************************************)
(* The memtable scenario: MemTable::add with increasing sequence numbers   *)
(* (as the write path assigns them) and MemTable::get at any snapshot.     *)
(***************************************************************************)
LastAdded == IF added = << >> THEN 0 ELSE added[Len(added)].seq

MemInit ==
    /\ mem = MemTable_new
    /\ added = << >>
    /\ got = NoGet
    /\ aborted = FALSE
    /\ writers = << >>
    /\ last_sequence = 0
    /\ temp_batch = WriteBatch_new
    /\ wal = << >>
    /\ calls = << >>
    /\ temp_ids = << >>
    /\ LogIdle
    /\ OtherIdle

\* mem.add(seq, valueType, key, value).  SkipList::insert calls
\* find_greater_or_equal, which makes a reference from a null pointer when
\* the entry sorts after every entry of the table.
MemAdd(seq, valueType, key, value) ==
    /\ ~aborted
    /\ Len(added) < MaxAdds
    /\ \E outcome \in SeekOutcomes(find_greater_or_equal(
                           mem, MemTable_entry(U64(seq), valueType, key, value),
                           TRUE).node) :
          IF outcome = "abort"
          THEN /\ aborted' = TRUE
               /\ UNCHANGED << mem, added >>
          ELSE /\ mem' = MemTable_add(mem, U64(seq), valueType, key, value)
               /\ added' = Append(added, [seq |-> seq, type |-> valueType,
                                          key |-> key, value |-> value])
               /\ UNCHANGED aborted
    /\ got' = NoGet
    /\ UNCHANGED << dbVars, logVars, otherVars >>

\* mem.add(seq, KTypeValue, key, value)
MemAddValue(seq, key, value) == MemAdd(seq, KTypeValue, key, value)

\* mem.add(seq, KTypeDeletion, key, Slice::from_empty())
MemAddDeletion(seq, key) == MemAdd(seq, KTypeDeletion, key, << >>)

\* mem.get(&LookupKey::new(key, snapshot))
MemGet(key, snapshot) ==
    /\ ~aborted
    /\ LET lkey == LookupKey_new(key, U64(snapshot))
           node == Iter_seek(mem, LookupKey_memtable_key(lkey))
       IN \E outcome \in SeekOutcomes(node) :
            LET r == MemTable_get(mem, lkey, outcome) IN
            /\ got' = [key |-> key, snapshot |-> snapshot,
                       found |-> r.found, status |-> r.status, value |-> r.value]
            /\ aborted' = (r.status = "abort")
    /\ UNCHANGED << mem, added, dbVars, logVars, otherVars >>

MemNext ==
    \/ \E seq \in (LastAdded + 1)..Min(LastAdded + 2, MaxSnapshot), key \in Keys,
          value \in Values : MemAddValue(seq, key, value)
    \/ \E seq \in (LastAdded + 1)..Min(LastAdded + 2, MaxSnapshot), key \in Keys :
          MemAddDeletion(seq, key)
    \/ \E key \in Keys, snapshot \in 0..MaxSnapshot : MemGet(key, snapshot)

MemSpec == MemInit /\ [][MemNext]_vars

(***************************************************************************)
(* The DB scenario (db.rs): put, delete, write and get on one DB.  write   *)
(* takes &mut self, so calls do not overlap.  Whether the log's append and *)
(* the file's sync succeed is the environment's choice (io).               *)
(***************************************************************************)
IO == {"ok", "append_fails", "sync_fails"}

PutOp(key, value) == [type |-> KTypeValue, key |-> key, value |-> value]
DeleteOp(key) == [type |-> KTypeDeletion, key |-> key, value |-> << >>]

\* the batch a caller builds with WriteBatch::put / WriteBatch::delete
RECURSIVE BatchOf(_, _)
BatchOf(rep, ops) ==
    IF ops = << >> THEN rep
    ELSE BatchOf(IF Head(ops).type = KTypeValue
                 THEN WriteBatch_put(rep, Head(ops).key, Head(ops).value)
                 ELSE WriteBatch_delete(rep, Head(ops).key),
                 Tail(ops))

\* the batches handed to DB::write directly
Batches == { << >>,
             << PutOp(<< 97 >>, << 49 >>), DeleteOp(<< 97 >>) >>,
             << PutOp(<< 97 >>, << 50 >>), PutOp(<< 98 >>, << 50 >>) >> }

\* the number of write calls that returned an I/O error
Failures == Cardinality({i \in 1..Len(calls) : calls[i].result = "IOError"})

DBInit ==
    /\ mem = MemTable_new
    /\ added = << >>
    /\ got = NoGet
    /\ aborted = FALSE
    /\ writers = << >>
    /\ last_sequence = 0
    /\ temp_batch = WriteBatch_new
    /\ wal = << >>
    /\ calls = << >>
    /\ temp_ids = << >>
    /\ LogIdle
    /\ OtherIdle

\* inserted_batches of a write that goes on to insert_into whatever
\* add_record and sync returned
inserted_batches_unchecked(io, ids) == ids

\* the batches DB::write hands to insert_into, ids being those temp_batch
\* holds: `?` returns before insert_into when add_record or sync fails
inserted_batches(io, ids) == IF io = "ok" THEN ids ELSE << >>

\* DB::write(opt, updates); ops are the operations `updates` was built from
DBWrite(ops, sync, io) ==
    /\ ~aborted
    /\ Len(calls) < MaxWrites
    /\ io = "sync_fails" => sync
    /\ io # "ok" => Failures < MaxFailures
    /\ LET ws       == Append(writers, [batch |-> BatchOf(WriteBatch_new, ops),
                                        sync |-> sync, done |-> FALSE])
           group    == build_batch_group(ws)
           built    == append_group(temp_batch, ws, group)
           stamped  == WriteBatch_set_sequence(built, U64(last_sequence + 1))
           new_last == last_sequence + count(stamped)
           record   == [kind |-> "record", data |-> stamped,
                        ids |-> temp_ids \o group]
           ins      == insert_into(stamped, mem)
           call     == [ops |-> ops, sync |-> sync, prev |-> last_sequence,
                        group |-> group, pos |-> Len(ws),
                        inserted |-> inserted_batches(io, temp_ids \o group)]
       IN /\ writers' = ws
          /\ IF io = "append_fails" THEN
                 \* self.log.add_record(..)? returns the error
                 /\ temp_batch' = stamped
                 /\ temp_ids' = temp_ids \o group
                 /\ calls' = Append(calls, call @@ [result |-> "IOError",
                                 appended |-> FALSE, fsynced |-> FALSE,
                                 new |-> last_sequence])
                 /\ UNCHANGED << wal, mem, last_sequence, aborted >>
             ELSE IF io = "sync_fails" THEN
                 \* self.logfile.borrow().sync()? returns the error
                 /\ temp_batch' = stamped
                 /\ temp_ids' = temp_ids \o group
                 /\ wal' = Append(wal, record)
                 /\ calls' = Append(calls, call @@ [result |-> "IOError",
                                 appended |-> TRUE, fsynced |-> FALSE,
                                 new |-> last_sequence])
                 /\ UNCHANGED << mem, last_sequence, aborted >>
             ELSE
                 /\ wal' = IF sync THEN wal \o << record, [kind |-> "sync"] >>
                           ELSE Append(wal, record)
                 /\ IF ins.status = "abort" THEN
                        /\ aborted' = TRUE
                        /\ temp_batch' = stamped
                        /\ temp_ids' = temp_ids \o group
                        /\ calls' = Append(calls, call @@ [result |-> "abort",
                                        appended |-> TRUE, fsynced |-> sync,
                                        new |-> last_sequence])
                        /\ UNCHANGED << mem, last_sequence >>
                    ELSE
                        /\ mem' = ins.mem
                        /\ temp_batch' = WriteBatch_new
                        /\ temp_ids' = << >>
                        /\ last_sequence' = new_last
                        /\ calls' = Append(calls, call @@ [result |-> "Ok",
                                        appended |-> TRUE, fsynced |-> sync,
                                        new |-> new_last])
                        /\ UNCHANGED aborted
    /\ got' = NoGet
    /\ UNCHANGED << added, logVars, otherVars >>

\* DB::put(opt, key, value)
DBPut(key, value, sync, io) == DBWrite(<< PutOp(key, value) >>, sync, io)

\* DB::delete(opt, key)
DBDelete(key, sync, io) == DBWrite(<< DeleteOp(key) >>, sync, io)

\* DB::get(options, key)
DBGet(key) ==
    /\ ~aborted
    /\ LET snapshot == last_sequence
           lkey     == LookupKey_new(key, U64(snapshot))
           node     == Iter_seek(mem, LookupKey_memtable_key(lkey))
       IN \E outcome \in SeekOutcomes(node) :
            LET r == MemTable_get(mem, lkey, outcome) IN
            /\ got' = [key |-> key, snapshot |-> snapshot,
                       found |-> r.found /\ r.status = "Ok",
                       status |-> IF r.status = "abort" THEN "abort"
                                  ELSE IF r.found /\ r.status = "Ok" THEN "Ok"
                                  ELSE "NotFound",
                       value |-> IF r.found /\ r.status = "Ok" THEN r.value
                                 ELSE << >>]
            /\ aborted' = (r.status = "abort")
    /\ UNCHANGED << mem, added, dbVars, logVars, otherVars >>

DBNext ==
    \/ \E key \in Keys, value \in Values, sync \in BOOLEAN, io \in IO :
          DBPut(key, value, sync, io)
    \/ \E key \in Keys, sync \in BOOLEAN, io \in IO : DBDelete(key, sync, io)
    \/ \E ops \in Batches, sync \in BOOLEAN, io \in IO : DBWrite(ops, sync, io)
    \/ \E key \in Keys : DBGet(key)

DBSpec == DBInit /\ [][DBNext]_vars

(***************************************************************************)
(* The log scenario (log_writer.rs, log_reader.rs): a Writer appends       *)
(* records to a fresh file; then a Reader is opened at offset 0 over the   *)
(* file's content and read_record is called repeatedly.                    *)
(***************************************************************************)
\* a payload of n bytes
Payload(n, fill) == SubSeq([i \in 1..n |-> (fill + i) % 256], 1, n)

\* payload lengths: empty, short, a whole block, and spanning two and three
\* blocks
PayloadLens ==
    { 0, 1, 3, kBlockSize - kHeaderSize, kBlockSize - kHeaderSize + 1,
      2 * (kBlockSize - kHeaderSize) + 2 }

Payloads == { Payload(n, fill) : n \in PayloadLens, fill \in {64, 200} }

LogInit ==
    /\ mem = MemTable_new
    /\ added = << >>
    /\ got = NoGet
    /\ aborted = FALSE
    /\ writers = << >>
    /\ last_sequence = 0
    /\ temp_batch = WriteBatch_new
    /\ wal = << >>
    /\ calls = << >>
    /\ temp_ids = << >>
    /\ LogIdle
    /\ OtherIdle

\* writer.add_record(&Slice::from_bytes(payload))
LogAddRecord(payload) ==
    /\ log_reader = NoReader
    /\ Len(records) < MaxRecords
    /\ log_writer' = add_record(log_writer, payload)
    /\ records' = Append(records, payload)
    /\ UNCHANGED << mem, added, got, aborted, dbVars, log_reader, reads, otherVars >>

\* Reader::new(MemorySequentialFile::new(file content), checksum, 0)
LogOpen(checksum) ==
    /\ log_reader = NoReader
    /\ log_reader' = Reader_new(MemorySequentialFile_new(log_writer.dest),
                                checksum, 0)
    /\ UNCHANGED << mem, added, got, aborted, dbVars, log_writer, records, reads,
                    otherVars >>

\* reader.read_record(&mut scratch)
LogReadRecord ==
    /\ log_reader # NoReader
    /\ ~aborted
    /\ Len(reads) <= Len(records)
    /\ LET r == read_record(log_reader) IN
        /\ log_reader' = r.reader
        /\ reads' = Append(reads, [status |-> r.status, data |-> r.data])
        /\ aborted' = (r.status = "abort")
    /\ UNCHANGED << mem, added, got, dbVars, log_writer, records, otherVars >>

LogNext ==
    \/ \E payload \in Payloads : LogAddRecord(payload)
    \/ \E checksum \in BOOLEAN : LogOpen(checksum)
    \/ LogReadRecord

LogSpec == LogInit /\ [][LogNext]_vars

\* no scenario has started
AllIdle == LogInit

\* the variables the scenarios below leave alone
coreVars == << mem, added, got, writers, last_sequence, temp_batch, wal,
              calls, temp_ids, log_writer, records, log_reader, reads >>

\* the smallest and the largest element of a non-empty set of integers
SetMin(S) == CHOOSE x \in S : \A y \in S : x <= y

SetMax(S) == CHOOSE x \in S : \A y \in S : x >= y

(***************************************************************************)
(* The batch scenario (write_batch.rs): one WriteBatch built by put,       *)
(* delete, append, clear, set_sequence and set_contents calls, on which    *)
(* iterate is called with a handler that records its calls.                *)
(***************************************************************************)
\* the sources of append: batches built by put and delete, stamped with a
\* sequence of their own
Sources ==
    { WriteBatch_set_sequence(BatchOf(WriteBatch_new, ops), U64(9)) :
        ops \in Batches }

\* the operations a rep built by put and delete holds
OpsOfSource(source) ==
    CHOOSE ops \in Batches :
        source = WriteBatch_set_sequence(BatchOf(WriteBatch_new, ops), U64(9))

\* contents given to set_contents: a batch whose header count is right, one
\* too small or one too large
Contents ==
    { [ops |-> ops, bytes |-> set_count(BatchOf(WriteBatch_new, ops), n)] :
        ops \in Batches, n \in 0..MaxBatchOps }

BatchInit == AllIdle

\* batch.put(key, value)
BatchPut(key, value) ==
    /\ ~aborted
    /\ Len(wb.ops) < MaxBatchOps
    /\ wb' = [wb EXCEPT !.rep = WriteBatch_put(wb.rep, key, value),
                        !.ops = Append(wb.ops, PutOp(key, value))]
    /\ wb_call' = NoCall
    /\ UNCHANGED << coreVars, aborted, listVars, concVars, envVars >>

\* batch.delete(key)
BatchDelete(key) ==
    /\ ~aborted
    /\ Len(wb.ops) < MaxBatchOps
    /\ wb' = [wb EXCEPT !.rep = WriteBatch_delete(wb.rep, key),
                        !.ops = Append(wb.ops, DeleteOp(key))]
    /\ wb_call' = NoCall
    /\ UNCHANGED << coreVars, aborted, listVars, concVars, envVars >>

\* batch.clear()
BatchClear ==
    /\ ~aborted
    /\ wb' = [rep |-> WriteBatch_new, ops |-> << >>, built |-> TRUE]
    /\ wb_call' = NoCall
    /\ UNCHANGED << coreVars, aborted, listVars, concVars, envVars >>

\* batch.set_sequence(seq)
BatchSetSequence(seq) ==
    /\ ~aborted
    /\ wb' = [wb EXCEPT !.rep = WriteBatch_set_sequence(wb.rep, U64(seq))]
    /\ wb_call' = NoCall
    /\ UNCHANGED << coreVars, aborted, listVars, concVars, envVars >>

\* batch.append(&source), append(&mut batch, &source)
BatchAppend(source) ==
    /\ ~aborted
    /\ Len(wb.ops) + count(source) <= MaxBatchOps
    /\ wb' = [wb EXCEPT !.rep = WriteBatch_append(wb.rep, source),
                        !.ops = wb.ops \o OpsOfSource(source)]
    /\ wb_call' = [op |-> "append", before |-> wb.rep, source |-> source]
    /\ UNCHANGED << coreVars, aborted, listVars, concVars, envVars >>

\* set_contents(&mut batch, contents)
BatchSetContents(contents) ==
    /\ ~aborted
    /\ LET r == set_contents(wb.rep, contents.bytes) IN
        /\ wb' = [rep |-> r.rep, ops |-> contents.ops, built |-> FALSE]
        /\ aborted' = (r.status = "abort")
    /\ wb_call' = NoCall
    /\ UNCHANGED << coreVars, listVars, concVars, envVars >>

\* batch.iterate(&mut handler)
BatchIterate ==
    /\ ~aborted
    /\ LET it == WriteBatch_iterate(wb.rep) IN
        /\ wb_call' = [op |-> "iterate", status |-> it.status,
                       calls |-> it.calls, found |-> it.found]
        /\ aborted' = (it.status = "abort")
    /\ UNCHANGED << coreVars, wb, listVars, concVars, envVars >>

BatchNext ==
    \/ \E key \in Keys, value \in Values : BatchPut(key, value)
    \/ \E key \in Keys : BatchDelete(key)
    \/ BatchClear
    \/ \E seq \in 1..2 : BatchSetSequence(seq)
    \/ \E source \in Sources : BatchAppend(source)
    \/ \E contents \in Contents : BatchSetContents(contents)
    \/ BatchIterate

BatchSpec == BatchInit /\ [][BatchNext]_vars

(***************************************************************************)
(* The list scenario (skiplist.rs): one thread inserts distinct keys into  *)
(* a SkipList<i32>, calls contains, and moves one iterator.                *)
(***************************************************************************)
ListKeys == 0..MaxKey

ListInit == AllIdle

\* list.insert(key), key not in the list.  insert calls
\* find_greater_or_equal, which makes a reference from a null pointer when
\* no key of the list is >= key.
ListInsert(key) ==
    /\ ~aborted
    /\ key \notin inserted
    /\ Cardinality(inserted) < MaxInserts
    /\ \E outcome \in SeekOutcomes(find_greater_or_equal(list, key, TRUE).node) :
          IF outcome = "abort"
          THEN /\ aborted' = TRUE
               /\ UNCHANGED << list, inserted >>
          ELSE /\ list' = SkipList_insert(list, key)
               /\ inserted' = inserted \cup {key}
               /\ UNCHANGED aborted
    /\ list_call' = NoCall
    /\ UNCHANGED << coreVars, batchVars, concVars, envVars, iter >>

\* list.contains(&key)
ListContains(key) ==
    /\ ~aborted
    /\ \E outcome \in SeekOutcomes(find_greater_or_equal(list, key, FALSE).node) :
          /\ list_call' = [op |-> "contains", arg |-> key,
                           status |-> IF outcome = "abort" THEN "abort" ELSE "ok",
                           result |-> outcome # "abort"
                                      /\ SkipList_contains(list, key)]
          /\ aborted' = (outcome = "abort")
    /\ UNCHANGED << coreVars, batchVars, concVars, envVars, list, inserted, iter >>

\* iter.seek(&target)
ListSeek(target) ==
    /\ ~aborted
    /\ LET node == Iter_seek(list, target) IN
        \E outcome \in SeekOutcomes(node) :
          /\ list_call' = [op |-> "seek", arg |-> target,
                           status |-> IF outcome = "abort" THEN "abort" ELSE "ok"]
          /\ iter' = IF outcome = "abort" THEN iter ELSE node
          /\ aborted' = (outcome = "abort")
    /\ UNCHANGED << coreVars, batchVars, concVars, envVars, list, inserted >>

\* iter.next(), iterator valid
ListStepNext ==
    /\ ~aborted
    /\ iter # NULL
    /\ list_call' = [op |-> "next", arg |-> list.nodes[iter].key, status |-> "ok"]
    /\ iter' = Iter_next(list, iter)
    /\ UNCHANGED << coreVars, batchVars, concVars, envVars, list, inserted, aborted >>

\* iter.prev(), iterator valid
ListPrev ==
    /\ ~aborted
    /\ iter # NULL
    /\ list_call' = [op |-> "prev", arg |-> list.nodes[iter].key, status |-> "ok"]
    /\ iter' = Iter_prev(list, iter)
    /\ UNCHANGED << coreVars, batchVars, concVars, envVars, list, inserted, aborted >>

\* iter.seek_to_first()
ListSeekToFirst ==
    /\ ~aborted
    /\ list_call' = [op |-> "seek_to_first", arg |-> 0, status |-> "ok"]
    /\ iter' = Iter_seek_to_first(list)
    /\ UNCHANGED << coreVars, batchVars, concVars, envVars, list, inserted, aborted >>

\* iter.seek_to_last()
ListSeekToLast ==
    /\ ~aborted
    /\ list_call' = [op |-> "seek_to_last", arg |-> 0, status |-> "ok"]
    /\ iter' = Iter_seek_to_last(list)
    /\ UNCHANGED << coreVars, batchVars, concVars, envVars, list, inserted, aborted >>

ListNext ==
    \/ \E key \in ListKeys : ListInsert(key)
    \/ \E key \in ListKeys : ListContains(key)
    \/ \E target \in ListKeys : ListSeek(target)
    \/ ListStepNext
    \/ ListPrev
    \/ ListSeekToFirst
    \/ ListSeekToLast

ListSpec == ListInit /\ [][ListNext]_vars

(***************************************************************************)
(* The file scenario (env.rs): append, flush and sync calls on one         *)
(* PosixWritableFile over an empty file.                                   *)
(***************************************************************************)
\* the byte strings appended: empty, short, and around one and two buffers
AppendData ==
    { << >>, << 0 >>, << 97 >>, << 97, 98 >> }
    \cup { Payload(n, 64) : n \in { kWritableFileBufferSize - 1,
                                   kWritableFileBufferSize,
                                   kWritableFileBufferSize + 1,
                                   2 * kWritableFileBufferSize + 1 } }

\* the number of append calls made
AppendCalls == IF pcall.op = "none" THEN 0 ELSE pcall.n

FileInit == AllIdle

\* file.append(data)
FileAppend(data) ==
    /\ AppendCalls < MaxAppends
    /\ pfile' = PosixWritableFile_append(pfile, data)
    /\ pappended' = pappended \o data
    /\ pcall' = [op |-> "append", n |-> AppendCalls + 1]
    /\ UNCHANGED << coreVars, aborted, batchVars, listVars, concVars, callVars, verVars, cmp >>

\* file.flush()
FileFlush ==
    /\ pcall.op = "append"
    /\ pfile' = PosixWritableFile_flush(pfile)
    /\ pcall' = [op |-> "flush", n |-> pcall.n]
    /\ UNCHANGED << coreVars, aborted, batchVars, listVars, concVars, callVars, verVars, cmp,
                    pappended >>

\* file.sync()
FileSync ==
    /\ pcall.op = "append"
    /\ pfile' = PosixWritableFile_sync(pfile)
    /\ pcall' = [op |-> "sync", n |-> pcall.n]
    /\ UNCHANGED << coreVars, aborted, batchVars, listVars, concVars, callVars, verVars, cmp,
                    pappended >>

FileNext ==
    \/ \E data \in AppendData : FileAppend(data)
    \/ FileFlush
    \/ FileSync

FileSpec == FileInit /\ [][FileNext]_vars

(***************************************************************************)
(* The manifest scenario (env.rs, version_set.rs, version_edit.rs): the    *)
(* directory "db", in which a manifest is installed (a log file whose      *)
(* records are encoded VersionEdits, and a CURRENT file that names it),    *)
(* set_current_file is called, and a new VersionSet is prepared.           *)
(***************************************************************************)
\* the basename of manifest number: "MANIFEST-" and six digits
ManifestName(number) ==
    << 77, 65, 78, 73, 70, 69, 83, 84, 45 >> \o Format06(number)

\* the edits of the manifests: VersionEdit::new with a next file number above
\* the log number
Edits ==
    { VersionEdit_new(log, log + d, seq) :
        log \in 1..MaxLogNumber, d \in 1..2, seq \in {41, 42} }

EditLists == UNION { [1..n -> Edits] : n \in 1..MaxEdits }

\* the log file that holds one record per edit
RECURSIVE WriteEdits(_, _)
WriteEdits(w, edits) ==
    IF edits = << >> THEN w
    ELSE WriteEdits(add_record(w, encode_to(Head(edits))), Tail(edits))

VerInit == AllIdle

\* a manifest with these edits is written and CURRENT is made to name it
VerInstall(number, edits) ==
    /\ ~aborted
    /\ installed.number = 0
    /\ fs' = FsWrite(FsWrite(fs, DbName \o << 47 >> \o ManifestName(number),
                             WriteEdits(Writer_new(<< >>), edits).dest),
                     current_file_name(DbName), ManifestName(number) \o << 10 >>)
    /\ installed' = [number |-> number, edits |-> edits]
    /\ UNCHANGED << coreVars, aborted, batchVars, listVars, concVars, callVars, fileVars,
                    cmp, versions, vcall >>

\* set_current_file("db", descriptor_number)
VerSetCurrentFile(descriptor_number) ==
    /\ ~aborted
    /\ vcall.op # "prepare"
    /\ LET r == set_current_file(fs, DbName, descriptor_number) IN
        /\ fs' = r.fs
        /\ vcall' = [op |-> "set_current_file", number |-> descriptor_number,
                     status |-> r.status]
    /\ UNCHANGED << coreVars, aborted, batchVars, listVars, concVars, callVars, fileVars,
                    cmp, versions, installed >>

\* VersionSet::new("db").prepare(&mut save_manifest); a call that panics
\* stops the process, a call that loops for ever has status "hang"
VerPrepare ==
    /\ ~aborted
    /\ vcall.op # "prepare"
    /\ \E r \in {prepare(VersionSet_new, fs, DbName)} :
        /\ versions' = r.vs
        /\ vcall' = [op |-> "prepare", number |-> 0, status |-> r.status]
        /\ aborted' = (r.status = "abort")
    /\ UNCHANGED << coreVars, batchVars, listVars, concVars, callVars, fileVars, cmp, fs,
                    installed >>

VerNext ==
    \/ \E number \in 1..MaxManifest, edits \in EditLists :
          VerInstall(number, edits)
    \/ \E number \in 1..MaxManifest : VerSetCurrentFile(number)
    \/ VerPrepare

VerSpec == VerInit /\ [][VerNext]_vars

(***************************************************************************)
(* The comparator scenario (dbformat.rs): InternalKeyComparator::compare   *)
(* over the tests' bytewise user comparator, applied to pairs of internal  *)
(* keys.                                                                   *)
(***************************************************************************)
\* internal keys: a user key followed by the 8-byte tag
CmpUserKeys == { << 97 >>, << 97, 0 >>, << 98 >> }

InternalKeys ==
    { user_key \o encode_fixed64(pack_sequence_and_type(U64(seq), t)) :
        user_key \in CmpUserKeys, seq \in 0..MaxCmpSeq,
        t \in {KTypeDeletion, KTypeValue} }

CmpInit == AllIdle

\* comparator.compare(a, b), compare(b, a) and compare(a, a)
CmpCompare(a, b) ==
    /\ cmp' = [op |-> "compare", a |-> a, b |-> b,
               ab |-> InternalKeyComparator_compare(a, b),
               ba |-> InternalKeyComparator_compare(b, a),
               aa |-> InternalKeyComparator_compare(a, a)]
    /\ UNCHANGED << coreVars, aborted, batchVars, listVars, concVars, callVars, fileVars,
                    verVars >>

CmpNext == \E a \in InternalKeys, b \in InternalKeys : CmpCompare(a, b)

CmpSpec == CmpInit /\ [][CmpNext]_vars

(***************************************************************************)
(* The concurrent list scenario (skiplist.rs): one thread runs             *)
(* SkipList::insert store by store while another runs SkipList::contains   *)
(* load by load.  A store of the inserting thread is kept in `unseen`      *)
(* until the reading thread can see it.  Stores to one location become     *)
(* visible in program order; a Release store becomes visible only after    *)
(* every store before it (an Acquire load that reads it then sees them);   *)
(* Relaxed and plain stores become visible in any order.                   *)
(***************************************************************************)
ConcKeys == 1..MaxConcKey

\* the ordering of the store that links a node into the list:
\* no_barrier_set_next, Ordering::Relaxed
PublishOrder == "Relaxed"

\* the stores to the location of store w that are not visible yet
SameLocation(w, v) ==
    w.kind = v.kind /\ w.node = v.node /\ w.level = v.level

\* Node::next(n) as the reading thread sees next[level] of node n
ViewNext(n, level) ==
    LET hidden == {i \in 1..Len(unseen) :
                     unseen[i].kind = "next" /\ unseen[i].node = n
                     /\ unseen[i].level = level}
    IN IF hidden = {} THEN clist.nodes[n].next[level]
       ELSE unseen[SetMin(hidden)].old

\* get_max_height() as the reading thread sees it
ViewMaxHeight ==
    LET hidden == {i \in 1..Len(unseen) : unseen[i].kind = "max_height"}
    IN IF hidden = {} THEN clist.max_height ELSE unseen[SetMin(hidden)].old

\* the reading thread sees the key and the pointers Node::new_node gave
\* node n
InitSeen(n) ==
    \A i \in 1..Len(unseen) : ~(unseen[i].kind = "init" /\ unseen[i].node = n)

\* the keys whose insert returned and whose stores are all visible
VisibleKeys == cw.done \ {unseen[i].key : i \in 1..Len(unseen)}

ConcInit == AllIdle

\* insert(key) up to Box::into_raw: find_greater_or_equal, random_height,
\* the new max_height, the new node
ConcInsertBegin(key) ==
    /\ ~aborted
    /\ cw.pc = "idle"
    /\ key \notin cw.done
    /\ Cardinality(cw.done) < MaxConcInserts
    /\ LET found  == find_greater_or_equal(clist, key, TRUE)
           rh     == random_height(clist)
           height == rh.height
           raise  == height > clist.max_height
           prev   == [i \in 1..MAX_HEIGHT |->
                        IF raise /\ i > clist.max_height /\ i <= height
                        THEN HEAD ELSE found.prev[i]]
           new    == Len(clist.nodes) + 1
       IN \E outcome \in SeekOutcomes(found.node) :
            IF outcome = "abort"
            THEN /\ aborted' = TRUE
                 /\ UNCHANGED << clist, unseen, cw >>
            ELSE /\ clist' = [clist EXCEPT
                                 !.nodes = Append(@, [key |-> key,
                                              next |-> [l \in 1..height |-> NULL]]),
                                 !.max_height = IF raise THEN height ELSE @,
                                 !.rand = rh.rand]
                 /\ unseen' = unseen
                       \o (IF raise
                           THEN << [kind |-> "max_height", node |-> NULL,
                                    level |-> 0, old |-> clist.max_height,
                                    ord |-> "Relaxed", key |-> key] >>
                           ELSE << >>)
                       \o << [kind |-> "init", node |-> new, level |-> 0,
                               old |-> NULL, ord |-> "Plain", key |-> key] >>
                 /\ cw' = [cw EXCEPT !.pc = "new_next", !.key = key,
                                     !.prev = prev, !.height = height,
                                     !.new = new, !.level = 0]
                 /\ UNCHANGED aborted
    /\ UNCHANGED << coreVars, batchVars, listVars, envVars, cr >>

\* (*new_node_ptr).no_barrier_set_next(i, (*prev[i]).no_barrier_next(i))
ConcSetNewNext ==
    /\ ~aborted
    /\ cw.pc = "new_next"
    /\ LET l == cw.level + 1
           pre_next == clist.nodes[cw.prev[l]].next[l]
       IN /\ clist' = [clist EXCEPT !.nodes[cw.new].next[l] = pre_next]
          /\ unseen' = Append(unseen,
                 [kind |-> "next", node |-> cw.new, level |-> l,
                  old |-> clist.nodes[cw.new].next[l], ord |-> "Relaxed",
                  key |-> cw.key])
    /\ cw' = [cw EXCEPT !.pc = "prev_next"]
    /\ UNCHANGED << coreVars, batchVars, listVars, envVars, cr, aborted >>

\* (*prev[i]).no_barrier_set_next(i, new_node_ptr), then the next level or
\* the return of insert
ConcSetPrevNext ==
    /\ ~aborted
    /\ cw.pc = "prev_next"
    /\ LET l == cw.level + 1
           p == cw.prev[l]
       IN /\ clist' = [clist EXCEPT !.nodes[p].next[l] = cw.new]
          /\ unseen' = Append(unseen,
                 [kind |-> "next", node |-> p, level |-> l,
                  old |-> clist.nodes[p].next[l], ord |-> PublishOrder,
                  key |-> cw.key])
          /\ cw' = IF l < cw.height
                   THEN [cw EXCEPT !.pc = "new_next", !.level = l]
                   ELSE [cw EXCEPT !.pc = "idle", !.done = @ \cup {cw.key}]
    /\ UNCHANGED << coreVars, batchVars, listVars, envVars, cr, aborted >>

\* the store unseen[i] becomes visible to the reading thread
ConcPropagate(i) ==
    /\ i \in 1..Len(unseen)
    /\ \A j \in 1..(i - 1) : ~SameLocation(unseen[j], unseen[i])
    /\ unseen[i].ord = "Release" => i = 1
    /\ unseen' = SubSeq(unseen, 1, i - 1) \o SubSeq(unseen, i + 1, Len(unseen))
    /\ UNCHANGED << coreVars, batchVars, listVars, envVars, clist, cw, cr, aborted >>

\* contains(&key) up to the loop of find_greater_or_equal
ConcContainsBegin(key) ==
    /\ ~aborted
    /\ cr.pc \in {"idle", "done"}
    /\ cr' = [pc |-> "run", key |-> key, x |-> HEAD, level |-> ViewMaxHeight - 1,
              must |-> VisibleKeys, result |-> FALSE]
    /\ UNCHANGED << coreVars, batchVars, listVars, envVars, clist, unseen, cw, aborted >>

\* one turn of the loop of find_greater_or_equal: the Acquire load of
\* (*x).next(level), key_is_after_node, and at level 0 the return and the
\* rest of contains.  Reading the key of a node whose initialisation is not
\* visible is a read of uninitialised memory ("bad").
ConcContainsStep ==
    /\ ~aborted
    /\ cr.pc = "run"
    /\ LET next == ViewNext(cr.x, cr.level + 1) IN
        IF next # NULL /\ ~InitSeen(next)
        THEN /\ cr' = [cr EXCEPT !.pc = "bad"]
             /\ UNCHANGED aborted
        ELSE IF next # NULL /\ KeyCmp_compare(clist.nodes[next].key, cr.key) = "Less"
        THEN /\ cr' = [cr EXCEPT !.x = next]
             /\ UNCHANGED aborted
        ELSE IF cr.level > 0
        THEN /\ cr' = [cr EXCEPT !.level = @ - 1]
             /\ UNCHANGED aborted
        ELSE \E outcome \in SeekOutcomes(next) :
               /\ cr' = [cr EXCEPT
                            !.pc = "done",
                            !.result = (outcome = "some"
                                        /\ KeyCmp_compare(cr.key,
                                               clist.nodes[next].key) = "Equal")]
               /\ aborted' = (outcome = "abort")
    /\ UNCHANGED << coreVars, batchVars, listVars, envVars, clist, unseen, cw >>

ConcNext ==
    \/ \E key \in ConcKeys : ConcInsertBegin(key)
    \/ ConcSetNewNext
    \/ ConcSetPrevNext
    \/ \E i \in 1..Len(unseen) : ConcPropagate(i)
    \/ \E key \in ConcKeys : ConcContainsBegin(key)
    \/ ConcContainsStep

ConcSpec == ConcInit /\ [][ConcNext]_vars

(***************************************************************************)
(* The fragment scenario (log_reader.rs): a log file made of physical      *)
(* records of any types, each written by emit_physical_record at the start *)
(* of a block and filling the block, read by read_record calls.            *)
(***************************************************************************)
FragTypes == { kFullType, kFirstType, kMiddleType, kLastType }

\* the payload of the i-th physical record of the file
FragData(i) == [j \in 1..(kBlockSize - kHeaderSize) |-> 64 + i]

FragInit == AllIdle

\* the writer is at the end of a block (add_record sets block_offset to 0)
\* and emits one physical record of type record_type
FragEmit(record_type) ==
    /\ log_reader = NoReader
    /\ Len(frags) < MaxFrags
    /\ log_writer' = emit_physical_record([log_writer EXCEPT !.block_offset = 0],
                                          record_type, FragData(Len(frags) + 1))
    /\ frags' = Append(frags, record_type)
    /\ UNCHANGED << mem, added, got, aborted, dbVars, records, log_reader, reads,
                    batchVars, listVars, concVars, fileVars, verVars, cmp, pure >>

\* reader.read_record(&mut scratch), any number of times
FragRead ==
    /\ log_reader # NoReader
    /\ ~aborted
    /\ Len(reads) < MaxFragReads
    /\ \E r \in { read_record(log_reader) } :
        /\ log_reader' = r.reader
        /\ reads' = Append(reads, [status |-> r.status, data |-> r.data])
        /\ aborted' = (r.status = "abort")
    /\ UNCHANGED << mem, added, got, dbVars, log_writer, records, otherVars >>

FragNext ==
    \/ \E record_type \in FragTypes : FragEmit(record_type)
    \/ \E checksum \in BOOLEAN : LogOpen(checksum)
    \/ FragRead

FragSpec == FragInit /\ [][FragNext]_vars

(***************************************************************************)
(* The coding scenario (coding.rs): values appended with put_varint32 and  *)
(* decoded one after another with get_varint32, as test_coding_varint32    *)
(* does, and get_varint32 on a range of a buffer.                          *)
(***************************************************************************)
\* u32 values: 0, the bounds of the five encoding lengths, 300, 2^31 - 1,
\* 2^31, 2^31 + 100 and 2^32 - 1
Varints ==
    { << 0, 0, 0, 0 >>, << 127, 0, 0, 0 >>, << 128, 0, 0, 0 >>,
      << 44, 1, 0, 0 >>, << 255, 63, 0, 0 >>, << 0, 64, 0, 0 >>,
      << 255, 255, 31, 0 >>, << 0, 0, 32, 0 >>, << 255, 255, 255, 15 >>,
      << 0, 0, 0, 16 >>, << 255, 255, 255, 127 >>, << 0, 0, 0, 128 >>,
      << 100, 0, 0, 128 >>, << 255, 255, 255, 255 >> }

VarintSeqs == UNION { [1..n -> Varints] : n \in 1..MaxVarints }

\* buffers given to get_varint32: one encoded value, alone and after a
\* byte, and six bytes of which the first five have the high bit set
VarintBufs ==
    { put_varint32(v) : v \in Varints }
    \cup { << 7 >> \o put_varint32(v) : v \in Varints }
    \cup { << 129, 130, 131, 132, 133, 17 >>, << 255, 255, 255, 255, 255, 0 >>,
           << 128, 128, 128, 128, 128, 1 >> }

\* `v as u64`
AsU64(v) == v \o << 0, 0, 0, 0 >>

\* put_varint32(&mut s, v) for each v of vs: the bytes of s
RECURSIVE put_all(_)
put_all(vs) ==
    IF vs = << >> THEN << >> ELSE put_varint32(Head(vs)) \o put_all(Tail(vs))

\* get_varint32(&s, offset, limit) n times, offset += var_size after each;
\* stops at the first call that does not return Ok (expect panics)
RECURSIVE get_all(_, _, _, _), get_next(_, _, _, _, _)
get_all(s, offset, limit, n) ==
    IF n = 0 THEN << >>
    ELSE get_next(get_varint32(s, offset, limit), s, offset, limit, n)

get_next(r, s, offset, limit, n) ==
    IF r.ok = "ok" THEN << r >> \o get_all(s, offset + r.read, limit, n - 1)
    ELSE << r >>

CodingInit == AllIdle

\* the two loops of test_coding_varint32 on the values vs (each call of the
\* scenario is made once, from the initial state)
VarintRoundTrip(vs) ==
    /\ pure = NoCall
    /\ \E s \in { put_all(vs) } :
        pure' = [op |-> "round_trip", values |-> vs, s |-> s,
                 sizes |-> [i \in 1..Len(vs) |-> Len(put_varint32(vs[i]))],
                 decoded |-> get_all(s, 0, Len(s), Len(vs))]
    /\ UNCHANGED << coreVars, aborted, batchVars, listVars, concVars, fileVars,
                    verVars, cmp, frags >>

\* get_varint32(buf, offset, limit) with offset <= limit <= buf.len()
VarintGet(buf, offset, limit) ==
    /\ pure = NoCall
    /\ pure' = [op |-> "get_varint32", buf |-> buf, offset |-> offset,
                limit |-> limit, result |-> get_varint32(buf, offset, limit)]
    /\ UNCHANGED << coreVars, aborted, batchVars, listVars, concVars, fileVars,
                    verVars, cmp, frags >>

CodingNext ==
    \/ \E vs \in VarintSeqs : VarintRoundTrip(vs)
    \/ \E buf \in VarintBufs : \E offset \in 0..1 : \E limit \in offset..Len(buf) :
           VarintGet(buf, offset, limit)

CodingSpec == CodingInit /\ [][CodingNext]_vars

(***************************************************************************)
(* The checksum mask scenario (util/crc.rs): mask and unmask on a u32, as  *)
(* test_crc_mask calls them.                                               *)
(***************************************************************************)
\* u32 values: every combination of the listed bytes, and value("foo")
Crcs ==
    { << a, b, c, d >> : a \in { 0, 1, 127, 128, 255 }, b \in { 0, 93, 255 },
                         c \in { 0, 93, 255 }, d \in { 0, 1, 127, 128, 255 } }
    \cup { crc_value(<< 102, 111, 111 >>) }

CrcInit == AllIdle

\* mask(crc), mask(mask(crc)), unmask(mask(crc)) and
\* unmask(unmask(mask(mask(crc)))) (each call of the scenario is made once,
\* from the initial state)
MaskCall(crc) ==
    /\ pure = NoCall
    /\ \E masked \in { mask(crc) } : \E twice \in { mask(masked) } :
        pure' = [op |-> "mask", crc |-> crc, masked |-> masked,
                 twice |-> twice, unmasked |-> unmask(masked),
                 unmasked_twice |-> unmask(unmask(twice))]
    /\ UNCHANGED << coreVars, aborted, batchVars, listVars, concVars, fileVars,
                    verVars, cmp, frags >>

CrcNext == \E crc \in Crcs : MaskCall(crc)

CrcSpec == CrcInit /\ [][CrcNext]_vars

(***************************************************************************)
(* The group scenario (db.rs): DB::build_batch_group on a writer queue     *)
(* whose batches hold one put each, of a short value, of a value that      *)
(* makes the batch 128 KiB long, and of a value of 512 KiB.                *)
(***************************************************************************)
GroupValueLens == { 1, 131054, 524288 }

GroupBatches ==
    { BatchOf(WriteBatch_new, << PutOp(<< 97 >>, Zeros(n)) >>) :
        n \in GroupValueLens }

GroupWriters ==
    { [batch |-> b, sync |-> sync, done |-> FALSE] :
        b \in GroupBatches, sync \in BOOLEAN }

GroupQueues == UNION { [1..n -> GroupWriters] : n \in 1..MaxQueue }

GroupInit == AllIdle

\* self.build_batch_group(writers) on the queue ws: the writers whose batch
\* is appended to temp_batch (each call of the scenario is made once, from
\* the initial state)
BuildGroup(ws) ==
    /\ pure = NoCall
    /\ pure' = [op |-> "build_batch_group",
                sizes |-> [i \in 1..Len(ws) |-> byte_size(ws[i].batch)],
                syncs |-> [i \in 1..Len(ws) |-> ws[i].sync],
                group |-> build_batch_group(ws)]
    /\ UNCHANGED << coreVars, aborted, batchVars, listVars, concVars, fileVars,
                    verVars, cmp, frags >>

GroupNext == \E ws \in GroupQueues : BuildGroup(ws)

GroupSpec == GroupInit /\ [][GroupNext]_vars

(***************************************************************************)
(* The replay scenario (write_batch.rs): a batch built by put and delete   *)
(* calls, stamped with set_sequence, then read with sequence and applied   *)
(* to a new MemTable with insert_into.                                     *)
(***************************************************************************)
ReplayOps ==
    { PutOp(key, value) : key \in Keys, value \in Values }
    \cup { DeleteOp(key) : key \in Keys }

ReplayBatches == UNION { [1..n -> ReplayOps] : n \in 1..MaxReplayOps }

\* what sequence(b) returns: the decoded u64, or an out-of-bounds read of
\* the rep (ok is FALSE, the build decides what is read)
sequence_read(rep) ==
    IF Len(rep) >= 16 THEN [ok |-> TRUE, value |-> sequence(rep)]
    ELSE [ok |-> FALSE, value |-> U64(0)]

ReplayInit == AllIdle

\* batch.set_sequence(s); sequence(&batch); insert_into(&batch, &mut mem) on
\* a new MemTable (each call of the scenario is made once, from the initial
\* state)
ReplayInsertInto(ops, s) ==
    /\ pure = NoCall
    /\ \E batch \in { WriteBatch_set_sequence(BatchOf(WriteBatch_new, ops),
                                              U64(s)) } :
       \E r \in { insert_into(batch, MemTable_new) } :
        pure' = [op |-> "insert_into", ops |-> ops, s |-> s,
                 sequence |-> sequence_read(batch),
                 status |-> r.status,
                 entries |-> [n \in 1..(Len(r.mem.nodes) - 1) |->
                                 r.mem.nodes[n + 1].key]]
    /\ UNCHANGED << coreVars, aborted, batchVars, listVars, concVars, fileVars,
                    verVars, cmp, frags >>

ReplayNext ==
    \E ops \in ReplayBatches : \E s \in 1..MaxStamp : ReplayInsertInto(ops, s)

ReplaySpec == ReplayInit /\ [][ReplayNext]_vars

(***************************************************************************)
(* The file number scenario (version_set.rs): mark_file_number_used on a   *)
(* VersionSet with a given next_file_number.                               *)
(***************************************************************************)
FileNumbers == 0..MaxFileNumber

MarkInit == AllIdle

\* vs.mark_file_number_used(number) on a VersionSet whose next_file_number
\* is next (each call of the scenario is made once, from the initial state)
MarkFileNumberUsed(next, number) ==
    /\ pure = NoCall
    /\ \E vs \in { [VersionSet_new EXCEPT !.next_file_number = next] } :
        pure' = [op |-> "mark_file_number_used", before |-> next,
                 number |-> number,
                 after |-> mark_file_number_used(vs, number).next_file_number]
    /\ UNCHANGED << coreVars, aborted, batchVars, listVars, concVars, fileVars,
                    verVars, cmp, frags >>

MarkNext ==
    \E next \in FileNumbers, number \in FileNumbers :
        MarkFileNumberUsed(next, number)

MarkSpec == MarkInit /\ [][MarkNext]_vars

(***************************************************************************)
(* The decode scenario (version_edit.rs): VersionEdit::decode_from on a    *)
(* byte string.                                                            *)
(***************************************************************************)
\* bytes of the inputs: no tag, kComparator, kLogNumber, kLastSequence, and
\* a byte with the continuation bit
InputBytes == { 0, kComparator, kLogNumber, kLastSequence, 128 }

DecodeInputs == UNION { [1..n -> InputBytes] : n \in 0..MaxInput }

DecodeInit == AllIdle

\* VersionEdit::decode_from(input) (each call of the scenario is made once,
\* from the initial state); a call that loops for ever has status "hang"
DecodeFrom(input) ==
    /\ pure = NoCall
    /\ pure' = [op |-> "decode_from", input |-> input,
                status |-> decode_from(input).status]
    /\ UNCHANGED << coreVars, aborted, batchVars, listVars, concVars, fileVars,
                    verVars, cmp, frags >>

DecodeNext == \E input \in DecodeInputs : DecodeFrom(input)

DecodeSpec == DecodeInit /\ [][DecodeNext]_vars

(***************************************************************************)
(* Claims about the DB (DBSpec).                                           *)
(***************************************************************************)
\* a get was made in the current state and returned
GetReturned == got.status \in {"Ok", "NotFound"}

\* the operations of the write calls 1..i that returned Ok, in call order
RECURSIVE OpsOfOkCalls(_)
OpsOfOkCalls(i) ==
    IF i = 0 THEN << >>
    ELSE OpsOfOkCalls(i - 1)
         \o (IF calls[i].result = "Ok" THEN calls[i].ops ELSE << >>)

\* the successful writes to key, oldest first
WritesTo(key) ==
    SelectSeq(OpsOfOkCalls(Len(calls)), LAMBDA o : o.key = key)

\* C1: after a put(k, v) that returned Ok and no later successful write to
\* k, get(k) returns Ok(v)
C1_GetReturnsLastPut ==
    GetReturned =>
        LET w == WritesTo(got.key) IN
        (w # << >> /\ w[Len(w)].type = KTypeValue) =>
            (got.status = "Ok" /\ got.value = w[Len(w)].value)

\* C2: get(k) returns NotFound exactly when k was never written
\* successfully or its most recent successful write is a delete
C2_NotFoundIffAbsent ==
    GetReturned =>
        LET w == WritesTo(got.key) IN
        (got.status = "NotFound") <=>
            (w = << >> \/ w[Len(w)].type = KTypeDeletion)

\* C4: every write call that returned Ok advanced last_sequence by exactly
\* the number of operations of its batch
C4_SequenceAdvancesByCount ==
    \A i \in 1..Len(calls) :
        calls[i].result = "Ok" => calls[i].new = calls[i].prev + Len(calls[i].ops)

\* the calls whose batches the WAL records hold, in WAL order
RECURSIVE WalIds(_)
WalIds(i) ==
    IF i = 0 THEN << >>
    ELSE WalIds(i - 1) \o (IF wal[i].kind = "record" THEN wal[i].ids ELSE << >>)

\* C7: when call a was enqueued before call b, every operation of a's batch
\* precedes every operation of b's batch in the concatenated WAL records
C7_WalOrderIsQueueOrder ==
    LET ids == WalIds(Len(wal)) IN
    \A p, q \in 1..Len(ids) : ids[q] < ids[p] => q < p

\* C8: after a write whose WAL append or fsync failed, every later write
\* call fails and appends nothing to the WAL
C8_PoisonedAfterFailure ==
    \A i, j \in 1..Len(calls) :
        (i < j /\ calls[i].result = "IOError") =>
            (calls[j].result = "IOError" /\ ~calls[j].appended)

\* C9: a write call that returned Ok and whose group holds the batch of a
\* writer enqueued with sync = true fsynced the WAL after its append
C9_SyncGroupIsFsynced ==
    \A i \in 1..Len(calls) :
        (calls[i].result = "Ok"
            /\ \E g \in 1..Len(calls[i].group) : writers[calls[i].group[g]].sync)
        => calls[i].fsynced

\* C10: a write call appends to the WAL only when its writer is at the front
\* of the writer queue (or was marked done by a leader, which then appended
\* for it); write calls never overlap (&mut self)
C10_OnlyFrontWriterAppends ==
    \A i \in 1..Len(calls) :
        calls[i].appended => (calls[i].pos = 1 \/ writers[i].done)

(***************************************************************************)
(* Claims about the log (LogSpec).                                         *)
(***************************************************************************)
\* C3: the payloads given to add_record on a fresh file are what read_record
\* returns from a reader opened at offset 0 over that file, byte for byte and
\* in the same order: the i-th read_record returns the i-th payload
C3_WalRoundTrip ==
    \A i \in 1..Len(reads) :
        i <= Len(records) => (reads[i].status = "Ok" /\ reads[i].data = records[i])

(***************************************************************************)
(* Claims about the WriteBatch (BatchSpec).                                *)
(***************************************************************************)
\* C11: on a batch built by put, delete, append and clear calls, iterate
\* calls the handler exactly count() times: once per operation added since
\* the last clear, in the order added, with the same keys and values
C11_IterateVisitsEveryOperation ==
    (wb_call.op = "iterate" /\ wb.built) =>
        /\ wb_call.status = "ok"
        /\ Len(wb_call.calls) = count(wb.rep)
        /\ wb_call.calls = wb.ops

\* C12: an iterate that parsed a number of records other than the count of
\* the batch header signals Corruption
C12_CountMismatchIsCorruption ==
    (wb_call.op = "iterate" /\ wb_call.status # "abort"
        /\ wb_call.found # count(wb.rep))
    => wb_call.status = "Corruption"

\* C13: append leaves the destination with count(a) + count(b) operations,
\* its records followed by the source's records, and its 8-byte header
\* sequence unchanged
C13_AppendConcatenates ==
    wb_call.op = "append" =>
        LET a == wb_call.before
            b == wb_call.source
        IN /\ count(wb.rep) = count(a) + count(b)
           /\ Sub(wb.rep, K_HEADER, Len(wb.rep))
                = Sub(a, K_HEADER, Len(a)) \o Sub(b, K_HEADER, Len(b))
           /\ Sub(wb.rep, 0, 8) = Sub(a, 0, 8)
           /\ wb.built => wb.rep = set_count(
                  WriteBatch_set_sequence(BatchOf(WriteBatch_new, wb.ops),
                                          Sub(a, 0, 8)), count(wb.rep))

\* C13 witness: a batch holding an operation and stamped with a sequence
\* has had a source with two operations appended
C13_Witness ==
    /\ wb_call.op = "append"
    /\ count(wb_call.before) = 1
    /\ count(wb_call.source) = 2
    /\ Sub(wb_call.before, 0, 8) = U64(2)

(***************************************************************************)
(* Claims about the skip list (ListSpec).                                  *)
(***************************************************************************)
\* the key the iterator stands on
IterKey == list.nodes[iter].key

\* the iterator stands on the smallest key of S, and is invalid when S is
\* empty
IterAtMin(S) == IF S = {} THEN iter = NULL ELSE iter # NULL /\ IterKey = SetMin(S)

\* the iterator stands on the largest key of S, and is invalid when S is
\* empty
IterAtMax(S) == IF S = {} THEN iter = NULL ELSE iter # NULL /\ IterKey = SetMax(S)

\* C14: after inserts of distinct keys, contains(k) returns true exactly
\* for the keys inserted, and false for every key on an empty list
C14_ContainsMatchesSet ==
    list_call.op = "contains" =>
        /\ list_call.status = "ok"
        /\ list_call.result = (list_call.arg \in inserted)

\* C14, for the calls that returned: in the builds where the reference to
\* address 0 reads as None, contains agrees with the set of inserted keys
C14_ContainsMatchesSetWhenReturned ==
    (list_call.op = "contains" /\ list_call.status = "ok") =>
        list_call.result = (list_call.arg \in inserted)

\* C17: when CURRENT names a manifest whose records are encoded VersionEdits
\* that set log_number, next_file_number and last_sequence, prepare returns Ok,
\* last_sequence() is the last_sequence of the latest edit and
\* next_file_number is greater than the recovered log_number
C17_PrepareRecoversManifest ==
    (/\ vcall.op = "prepare"
     /\ installed.number # 0
     /\ current_file_name(DbName) \in DOMAIN fs
     /\ fs[current_file_name(DbName)] = ManifestName(installed.number) \o << 10 >>)
    => LET latest == installed.edits[Len(installed.edits)]
       IN /\ vcall.status = "Ok"
          /\ versions.last_sequence = latest.last_sequence
          /\ versions.next_file_number > latest.log_number

\* C18: after set_current_file(dbname, n) returned Ok, dbname/CURRENT holds
\* "MANIFEST-" and n in six digits followed by one newline; CURRENT never
\* holds a partial name
C18_CurrentNamesManifest ==
    /\ (vcall.op = "set_current_file" /\ vcall.status = "Ok") =>
          /\ current_file_name(DbName) \in DOMAIN fs
          /\ fs[current_file_name(DbName)] = ManifestName(vcall.number) \o << 10 >>
    /\ current_file_name(DbName) \in DOMAIN fs =>
          \E number \in 1..MaxManifest :
             fs[current_file_name(DbName)] = ManifestName(number) \o << 10 >>

\* the order the internal keys have by user key ascending, then by tag
\* (sequence, then type) descending
ExpectedOrder(a, b) ==
    LET r == user_comparator(Sub(a, 0, Len(a) - 8), Sub(b, 0, Len(b) - 8))
        anum == decode_fixed64(a, Len(a) - 8)
        bnum == decode_fixed64(b, Len(b) - 8)
    IN IF r # "Equal" THEN r
       ELSE IF U64Greater(anum, bnum, 8) THEN "Less"
       ELSE IF U64Greater(bnum, anum, 8) THEN "Greater"
       ELSE "Equal"

Reverse(r) ==
    IF r = "Less" THEN "Greater" ELSE IF r = "Greater" THEN "Less" ELSE "Equal"

\* C20: InternalKeyComparator::compare orders internal keys by user key
\* ascending, then by sequence descending; compare(a, a) is Equal and
\* compare(a, b) is the reverse of compare(b, a)
C20_CompareIsTotalOrder ==
    cmp.op = "compare" =>
        /\ cmp.aa = "Equal"
        /\ cmp.ab = Reverse(cmp.ba)
        /\ cmp.ab = ExpectedOrder(cmp.a, cmp.b)

\* C19: once flush() or sync() has returned Ok the bytes written to the
\* underlying file are the concatenation of all appended byte strings in call
\* order
C19_FileHoldsAppendedBytes ==
    pcall.op \in {"flush", "sync"} => pfile.file = pappended

\* C16: with one thread in insert and another in contains, the reader only
\* reaches nodes whose key and pointers it sees initialised, and it finds
\* every key whose insert had returned, with all its stores visible, before
\* the contains call started
C16_ReadersSeeInitialisedNodes ==
    /\ cr.pc # "bad"
    /\ (cr.pc = "done" /\ ~aborted /\ cr.key \in cr.must) => cr.result

\* C15: the iterator agrees with the sorted set of inserted keys: seek(t)
\* lands on the smallest key >= t, next on the next larger key, prev on the
\* next smaller key, seek_to_first / seek_to_last on the smallest / largest
\* key, and each is invalid exactly when there is no such key
C15_IteratorMatchesSortedSet ==
    /\ list_call.op = "seek" =>
          /\ list_call.status = "ok"
          /\ IterAtMin({k \in inserted : k >= list_call.arg})
    /\ list_call.op = "next" => IterAtMin({k \in inserted : k > list_call.arg})
    /\ list_call.op = "prev" => IterAtMax({k \in inserted : k < list_call.arg})
    /\ list_call.op = "seek_to_first" => IterAtMin(inserted)
    /\ list_call.op = "seek_to_last" => IterAtMax(inserted)

\* C15, for the seeks that returned: in the builds where the reference to
\* address 0 reads as None, the iterator agrees with the sorted set
C15_IteratorMatchesSortedSetWhenReturned ==
    /\ (list_call.op = "seek" /\ list_call.status = "ok") =>
          IterAtMin({k \in inserted : k >= list_call.arg})
    /\ list_call.op = "next" => IterAtMin({k \in inserted : k > list_call.arg})
    /\ list_call.op = "prev" => IterAtMax({k \in inserted : k < list_call.arg})
    /\ list_call.op = "seek_to_first" => IterAtMin(inserted)
    /\ list_call.op = "seek_to_last" => IterAtMax(inserted)

(***************************************************************************)
(* Claims about the memtable (MemSpec).                                    *)
(***************************************************************************)
\* C5: with exactly the entries (s1, Value, k, v1) and (s2, Value, k, v2),
\* s1 < s2, for key k, get(k, s) returns v2 for s >= s2, v1 for
\* s1 <= s < s2 and not-found for s < s1
C5_Freshness ==
    GetReturned =>
        LET mine == SelectSeq(added, LAMBDA a : a.key = got.key) IN
        (Len(mine) = 2 /\ mine[1].type = KTypeValue /\ mine[2].type = KTypeValue)
        => IF got.snapshot >= mine[2].seq
           THEN got.status = "Ok" /\ got.value = mine[2].value
           ELSE IF got.snapshot >= mine[1].seq
           THEN got.status = "Ok" /\ got.value = mine[1].value
           ELSE got.status = "NotFound"

\* C6: get(k, s') lands on the newest entry of k with sequence <= s': a
\* Deletion returns (true, Err(NotFound)), a Value returns (true, Ok(value))
C6_Tombstone ==
    GetReturned =>
        LET visible == SelectSeq(added, LAMBDA a : a.key = got.key
                                                   /\ a.seq <= got.snapshot)
        IN visible # << >> =>
            LET e == visible[Len(visible)] IN
            IF e.type = KTypeDeletion
            THEN got.found /\ got.status = "NotFound"
            ELSE got.found /\ got.status = "Ok" /\ got.value = e.value

(***************************************************************************)
(* Claims about the fragments of the log (FragSpec).                       *)
(***************************************************************************)
\* the physical records types[i..] violate the fragment order before they
\* complete a logical record: a Middle or Last met while no fragmented
\* record is open, a First or Full met while one is open
RECURSIVE FragmentViolation(_, _, _)
FragmentViolation(types, i, open) ==
    IF i > Len(types) THEN FALSE
    ELSE IF open
    THEN \/ types[i] \in { kFirstType, kFullType }
         \/ types[i] = kMiddleType /\ FragmentViolation(types, i + 1, TRUE)
    ELSE \/ types[i] \in { kMiddleType, kLastType }
         \/ types[i] = kFirstType /\ FragmentViolation(types, i + 1, TRUE)

\* C21: a read_record call that meets a Middle or Last record while no
\* fragmented record is open, or a First or Full record while one is open,
\* returns an error (a corruption report), neither Ok nor a panic
C21_FragmentOrderIsChecked ==
    (reads # << >> /\ FragmentViolation(frags, 1, FALSE)) =>
        reads[1].status \notin { "Ok", "abort" }

\* the logical records that the physical records types[i..] complete when
\* they follow the fragment order: [ok, mid, recs], ok when no record
\* violates the order, mid when the file ends inside a fragmented record,
\* recs the payloads of the complete records; part is the payload of the open
\* fragmented record so far
RECURSIVE LogicalRecords(_, _, _, _, _)
LogicalRecords(types, i, open, part, recs) ==
    IF i > Len(types) THEN [ok |-> TRUE, mid |-> open, recs |-> recs]
    ELSE IF open /\ types[i] = kMiddleType
    THEN LogicalRecords(types, i + 1, TRUE, part \o FragData(i), recs)
    ELSE IF open /\ types[i] = kLastType
    THEN LogicalRecords(types, i + 1, FALSE, << >>,
                        Append(recs, part \o FragData(i)))
    ELSE IF ~open /\ types[i] = kFullType
    THEN LogicalRecords(types, i + 1, FALSE, << >>, Append(recs, FragData(i)))
    ELSE IF ~open /\ types[i] = kFirstType
    THEN LogicalRecords(types, i + 1, TRUE, FragData(i), recs)
    ELSE [ok |-> FALSE, mid |-> open, recs |-> recs]

\* C22: when the log ends after a First fragment (and any Middle fragments)
\* with no Last fragment, the read_record calls return the complete records
\* that precede it, one per call, and every later call reports the end of
\* the log without an error and without bytes of the partial record
C22_TrailingFragmentIsDropped ==
    LET log == LogicalRecords(frags, 1, FALSE, << >>, << >>) IN
    (log.ok /\ log.mid) =>
        \A i \in 1..Len(reads) :
            reads[i] = [status |-> "Ok",
                        data |-> IF i <= Len(log.recs) THEN log.recs[i]
                                 ELSE << >>]

(***************************************************************************)
(* Claims about the checksums of the log (LogSpec).                        *)
(***************************************************************************)
\* C23: with checksums enabled, no physical record written by the log writer
\* is rejected, whatever follows it in the file: the first read_record call
\* on a file written by add_record calls does not fail
C23_WrittenRecordsPassChecksum ==
    (log_reader # NoReader /\ log_reader.checksum
        /\ records # << >> /\ reads # << >>) =>
        reads[1].status # "IOError"

(***************************************************************************)
(* Claims about the varint coding (CodingSpec).                            *)
(***************************************************************************)
\* C24: the values appended with put_varint32 one after another are what
\* get_varint32 returns when decoding them one after another, each with
\* varint_length(v) bytes read, which is also what put_varint32 returned
C24_VarintRoundTrip ==
    pure.op = "round_trip" =>
        /\ Len(pure.decoded) = Len(pure.values)
        /\ \A i \in 1..Len(pure.values) :
            /\ pure.decoded[i] = [ok |-> "ok", value |-> pure.values[i],
                                  read |-> varint_length(AsU64(pure.values[i]))]
            /\ pure.sizes[i] = varint_length(AsU64(pure.values[i]))

\* C24 witness: 2^31 + 100 and 128 were encoded one after the other and
\* decoded, the first from five bytes
C24_Witness ==
    /\ pure.op = "round_trip"
    /\ pure.values = << << 100, 0, 0, 128 >>, << 128, 0, 0, 0 >> >>
    /\ Len(pure.s) = 7
    /\ Len(pure.decoded) = 2
    /\ pure.decoded[1].read = 5
    /\ pure.decoded[2].value = << 128, 0, 0, 0 >>

\* the bytes buf[offset..limit] start with a complete varint of at most
\* five bytes: up to four bytes with the high bit set, then one without
CompleteVarint(buf, offset, limit) ==
    \E n \in 1..5 :
        /\ offset + n <= limit
        /\ At(buf, offset + n - 1) < 128
        /\ \A j \in 0..(n - 2) : At(buf, offset + j) >= 128

\* C25: get_varint32 returns an error whenever the bytes in [offset, limit)
\* do not hold a complete varint of at most five bytes: a limit short of the
\* encoding (limit = offset included) or five bytes with the high bit set
C25_IncompleteVarintIsError ==
    (pure.op = "get_varint32"
        /\ ~CompleteVarint(pure.buf, pure.offset, pure.limit)) =>
        pure.result.ok = "err"

\* C25 witness: get_varint32 on six bytes whose first five have the high
\* bit set returned an error
C25_Witness ==
    /\ pure.op = "get_varint32"
    /\ pure.buf = << 129, 130, 131, 132, 133, 17 >>
    /\ pure.offset = 0
    /\ pure.limit = 6
    /\ pure.result.ok = "err"

(***************************************************************************)
(* Claims about the checksum mask (CrcSpec).                               *)
(***************************************************************************)
\* C26: for every u32 c, unmask(mask(c)) = c, and unmasking twice what was
\* masked twice gives c as well; the additions and subtractions wrap
C26_MaskInvolution ==
    pure.op = "mask" =>
        /\ pure.unmasked = pure.crc
        /\ pure.unmasked_twice = pure.crc

\* C26 witness: 2^32 - 1 was masked to kMaskDelta - 1 (the addition wrapped)
\* and then unmasked
C26_Witness ==
    /\ pure.op = "mask"
    /\ pure.crc = << 255, 255, 255, 255 >>
    /\ pure.masked = << 215, 234, 130, 162 >>
    /\ pure.unmasked = << 255, 255, 255, 255 >>

(***************************************************************************)
(* Claims about the write path of the DB (DBSpec).                         *)
(***************************************************************************)
\* the operations of the batches of the calls ids, in order
RECURSIVE OpsOfIds(_)
OpsOfIds(ids) ==
    IF ids = << >> THEN << >>
    ELSE calls[Head(ids)].ops \o OpsOfIds(Tail(ids))

\* a + n on u64
RECURSIVE U64Plus(_, _)
U64Plus(a, n) == IF n = 0 THEN a ELSE U64Plus(U64Inc(a, 1), n - 1)

\* C27: for every sequence number q <= last_sequence that a write assigned
\* to an operation (the j-th operation of a WAL record whose first eight
\* bytes are the sequence s has q = s + j - 1), the memtable holds the entry (key, q, type, value)
C27_MemtableHoldsPublishedWrites ==
    \A r \in 1..Len(wal) :
        wal[r].kind = "record" =>
            LET ops == OpsOfIds(wal[r].ids) IN
            \A j \in 1..Len(ops) :
                LET q == U64Plus(decode_fixed64(wal[r].data, 0), j - 1) IN
                ~U64Greater(q, U64(last_sequence), 8) =>
                    \E n \in 1..Len(mem.nodes) :
                        mem.nodes[n].key
                            = MemTable_entry(q, ops[j].type, ops[j].key,
                                             ops[j].value)

\* C28: when no write is in progress and every write call returned Ok, the
\* writer queue is empty (the writers of each committed group were popped),
\* and no batch was included in the groups of two calls
C28_GroupWritersArePopped ==
    /\ (\A i \in 1..Len(calls) : calls[i].result = "Ok") => writers = << >>
    /\ \A i, j \in 1..Len(calls) :
        (i < j /\ calls[i].result = "Ok" /\ calls[j].result = "Ok") =>
            \A a \in 1..Len(calls[i].group), b \in 1..Len(calls[j].group) :
                calls[i].group[a] # calls[j].group[b]

(***************************************************************************)
(* Claims about the group of a write (GroupSpec).                          *)
(***************************************************************************)
\* C29: the group of a queue whose front writer has sync = false holds the
\* batch of no writer with sync = true: it is a prefix of the queue that
\* ends before the first sync writer
C29_NoSyncWriterInNonSyncGroup ==
    (pure.op = "build_batch_group" /\ ~pure.syncs[1]) =>
        \A g \in 1..Len(pure.group) :
            /\ pure.group[g] = g
            /\ ~pure.syncs[g]

\* C29 witness: the front writer is non-sync, the second writer is sync and
\* the third is not; the group is the front writer alone
C29_Witness ==
    /\ pure.op = "build_batch_group"
    /\ pure.syncs = << FALSE, TRUE, FALSE >>
    /\ pure.sizes = << 17, 17, 17 >>
    /\ pure.group = << 1 >>

\* the total byte size of the first k batches, each counted once
RECURSIVE PrefixSize(_, _)
PrefixSize(sizes, k) == IF k = 0 THEN 0 ELSE PrefixSize(sizes, k - 1) + sizes[k]

\* the cap of a group: leader_size + 128 KiB for a leader of at most 128 KiB,
\* 1 MiB otherwise
GroupCap(sizes) ==
    IF sizes[1] <= 131072 THEN sizes[1] + 131072 ELSE 1048576

\* C30: when no sync writer follows a non-sync leader, the group is the
\* longest prefix of the queue, starting with the front writer, whose total
\* byte size (every batch counted once) does not exceed the cap
C30_GroupIsLongestPrefixWithinCap ==
    (pure.op = "build_batch_group"
        /\ (pure.syncs[1] \/ \A i \in 1..Len(pure.syncs) : ~pure.syncs[i])) =>
        LET fits == { k \in 1..Len(pure.sizes) :
                        PrefixSize(pure.sizes, k) <= GroupCap(pure.sizes) }
        IN pure.group = [i \in 1..SetMax(fits \cup {1}) |-> i]

\* the memtable holds an entry of the operation op with a sequence number in
\* 1..last_sequence
Applied(op) ==
    \E q \in 1..last_sequence : \E n \in 1..Len(mem.nodes) :
        mem.nodes[n].key = MemTable_entry(U64(q), op.type, op.key, op.value)

\* C31: when a write call returned Ok, the caller's own batch is part of the
\* group the call committed: its operations are in a WAL record and in the
\* memtable
C31_CallerBatchIsCommitted ==
    \A i \in 1..Len(calls) :
        calls[i].result = "Ok" =>
            /\ \E g \in 1..Len(calls[i].group) : calls[i].group[g] = i
            /\ \E r \in 1..Len(wal) :
                /\ wal[r].kind = "record"
                /\ \E g \in 1..Len(wal[r].ids) : wal[r].ids[g] = i
            /\ \A j \in 1..Len(calls[i].ops) : Applied(calls[i].ops[j])

\* the WAL records that hold the batch of call i
RecordsOf(i) ==
    { r \in 1..Len(wal) :
        /\ wal[r].kind = "record"
        /\ \E g \in 1..Len(wal[r].ids) : wal[r].ids[g] = i }

\* C32: a write call that returned an error left last_sequence as it was,
\* no later call appended its operations to the WAL (they are in the WAL at
\* most once, from its own append), and once it has returned the scratch
\* group batch holds no operations
C32_FailedWriteLeavesNoResidue ==
    \A i \in 1..Len(calls) :
        calls[i].result = "IOError" =>
            /\ calls[i].new = calls[i].prev
            /\ Cardinality(RecordsOf(i)) <= (IF calls[i].appended THEN 1 ELSE 0)
            /\ i = Len(calls) => Len(temp_batch) = K_HEADER

C34_InsertIntoReplaysBatch ==
    pure.op = "insert_into" =>
        /\ pure.sequence = [ok |-> TRUE, value |-> U64(pure.s)]
        /\ pure.status = "ok"
        /\ Len(pure.entries) = Len(pure.ops)
        /\ \A i \in 1..Len(pure.ops) :
            \E n \in 1..Len(pure.entries) :
                pure.entries[n]
                    = MemTable_entry(U64(pure.s + i - 1), pure.ops[i].type,
                                     pure.ops[i].key, pure.ops[i].value)

(***************************************************************************)
(* Claims about the log writer (LogSpec).                                  *)
(***************************************************************************)
\* the physical records of a log file from position pos on, each one
\* [pos, type, data, placed]; placed is FALSE in a last element that marks
\* where the file cannot be cut further: a block tail shorter than a header
\* is not zero, a record runs over the end of its block, or the file ends
\* inside a record
RECURSIVE PhysicalRecords(_, _)
PhysicalRecords(dest, pos) ==
    LET leftover == kBlockSize - (pos % kBlockSize)
        length == At(dest, pos + 4) + At(dest, pos + 5) * 256
        misplaced == << [pos |-> pos, type |-> kZeroType, data |-> << >>,
                         placed |-> FALSE] >>
    IN IF pos = Len(dest) THEN << >>
       ELSE IF leftover < kHeaderSize
       THEN IF pos + leftover <= Len(dest)
               /\ Sub(dest, pos, pos + leftover) = Zeros(leftover)
            THEN PhysicalRecords(dest, pos + leftover)
            ELSE misplaced
       ELSE IF pos + kHeaderSize > Len(dest) THEN misplaced
       ELSE IF kHeaderSize + length > leftover
               \/ pos + kHeaderSize + length > Len(dest)
       THEN misplaced
       ELSE << [pos |-> pos, type |-> At(dest, pos + 6),
                data |-> Sub(dest, pos + kHeaderSize,
                             pos + kHeaderSize + length),
                placed |-> TRUE] >>
            \o PhysicalRecords(dest, pos + kHeaderSize + length)

RECURSIVE Regroup(_, _, _, _, _)
Regroup(recs, i, open, part, out) ==
    LET r == recs[i]
        malformed == [formed |-> FALSE, logical |-> out]
        more == [data |-> part.data \o r.data, fragments |-> part.fragments + 1]
    IN IF i > Len(recs) THEN [formed |-> ~open, logical |-> out]
       ELSE IF ~r.placed THEN malformed
       ELSE IF r.type = kFullType
       THEN IF open THEN malformed
            ELSE Regroup(recs, i + 1, FALSE, part,
                         Append(out, [data |-> r.data, fragments |-> 1]))
       ELSE IF r.type = kFirstType
       THEN IF open THEN malformed
            ELSE Regroup(recs, i + 1, TRUE,
                         [data |-> r.data, fragments |-> 1], out)
       ELSE IF r.type = kMiddleType
       THEN IF ~open THEN malformed
            ELSE Regroup(recs, i + 1, TRUE, more, out)
       ELSE IF r.type = kLastType
       THEN IF ~open THEN malformed
            ELSE Regroup(recs, i + 1, FALSE, part, Append(out, more))
       ELSE malformed

\* the logical records of the writer's file
Emitted ==
    Regroup(PhysicalRecords(log_writer.dest, 0), 1, FALSE,
            [data |-> << >>, fragments |-> 0], << >>)

C37_ReadRecordReturnsWholePayloads ==
    \A i \in 1..Len(reads) :
        (reads[i].status = "Ok" /\ reads[i].data # << >>) =>
            \E n \in 1..Len(Emitted.logical) :
                reads[i].data = Emitted.logical[n].data

(***************************************************************************)
(* Claims about the structure of the skiplist (ListSpec).                  *)
(***************************************************************************)
\* the nodes reached from x by the forward pointers of level l (1-based),
\* following at most fuel pointers
RECURSIVE ChainFrom(_, _, _, _)
ChainFrom(sl, x, l, fuel) ==
    IF x = NULL \/ fuel = 0 THEN << >>
    ELSE IF l > Len(sl.nodes[x].next) THEN << x >>
    ELSE << x >> \o ChainFrom(sl, sl.nodes[x].next[l], l, fuel - 1)

\* the chain of level l from head, head left out
Chain(sl, l) == ChainFrom(sl, sl.nodes[HEAD].next[l], l, Len(sl.nodes))

\* the structure of a skiplist that holds the keys of the set keys
WellFormed(sl, keys) ==
    /\ sl.max_height \in 1..MAX_HEIGHT
    /\ \A l \in 1..MAX_HEIGHT :
        LET c == Chain(sl, l) IN
        /\ \A n \in 1..Len(c) : Len(sl.nodes[c[n]].next) >= l
        /\ \A n \in 1..(Len(c) - 1) :
            SkipList_compare(sl, sl.nodes[c[n]].key, sl.nodes[c[n + 1]].key)
                = "Less"
        /\ l < MAX_HEIGHT =>
            { Chain(sl, l + 1)[n] : n \in 1..Len(Chain(sl, l + 1)) }
                \subseteq { c[n] : n \in 1..Len(c) }
    /\ { sl.nodes[Chain(sl, 1)[n]].key : n \in 1..Len(Chain(sl, 1)) } = keys
    /\ Len(Chain(sl, 1)) = Cardinality(keys)

\* C38: after any sequence of inserts of distinct keys, the chain of forward
\* pointers from head is strictly increasing at every level, every node
\* linked at level i+1 is linked at level i, level 0 links every inserted
\* key, a node's height never changes after insertion, and max_height never
\* decreases and stays within [1, 12]
C38_SkipListStructure ==
    /\ [] WellFormed(list, inserted)
    /\ [][ /\ list'.max_height >= list.max_height
           /\ \A n \in 1..Len(list.nodes) :
               /\ n <= Len(list'.nodes)
               /\ list'.nodes[n].key = list.nodes[n].key
               /\ Len(list'.nodes[n].next) = Len(list.nodes[n].next) ]_vars

\* C38 witness: four keys are in the list and a node is linked above level 0
C38_Witness ==
    /\ Cardinality(inserted) = 4
    /\ list.max_height > 1
    /\ Len(Chain(list, 2)) >= 1

(***************************************************************************)
(* Claims about the file numbers of the version set (MarkSpec).            *)
(***************************************************************************)
\* C39: mark_file_number_used(n) sets next_file_number to
\* max(next_file_number, n + 1): afterwards it is greater than n, for every
\* n and every prior value, and it is not less than before
C39_MarkedNumberIsBelowNext ==
    pure.op = "mark_file_number_used" =>
        /\ pure.after = IF pure.before > pure.number + 1 THEN pure.before
                        ELSE pure.number + 1
        /\ pure.after > pure.number
        /\ pure.after >= pure.before

(***************************************************************************)
(* Claims about VersionEdit::decode_from (DecodeSpec).                     *)
(***************************************************************************)
\* C40: decode_from terminates on every input: no call loops for ever, and
\* an input whose first bytes are not a known tag returns Corruption
C40_DecodeFromTerminates ==
    pure.op = "decode_from" =>
        /\ pure.status # "hang"
        /\ (pure.input = << >> \/ pure.input[1] \notin Tags) =>
            pure.status = "Corruption"

=============================================================================
